---- MODULE Spec2Model ----
(***************************************************************************)
(* Model of the QuantumSafeMessagingApp client: the cryptographic session  *)
(* layer of frontend/src (cryptoUtils.js, secureStorage.js, db.js,         *)
(* cryptomanager.js) and the handlers of pages/ChatPage.jsx that drive it. *)
(*                                                                         *)
(* Every device runs the same client.  Each asynchronous handler is a task *)
(* with a program counter; a step of a task is the code between two        *)
(* awaits that touch shared state (IndexedDB, the useCrypto state object,  *)
(* React state, the socket, the directory).                                *)
(*                                                                         *)
(* Byte arrays are sequences of numbers 0..255, hex strings are sequences  *)
(* of digits 0..15.  Cryptographic primitives of the libraries (ML-KEM,    *)
(* Falcon, AES-GCM, PBKDF2) are symbolic: a ciphertext names the key, IV   *)
(* and plaintext it was made from, and opens only under the same key and   *)
(* IV.                                                                     *)
(***************************************************************************)
EXTENDS Integers, Sequences, FiniteSets, TLC

VARIABLES
    dbIdentity,   \* device -> IndexedDB table "identity" (row for userId, or none)
    dbPeers,      \* device -> IndexedDB table "peers" (rows in ++id order)
    dbMessages,   \* device -> IndexedDB table "messages" (rows in ++id order)
    mem,          \* device -> useCrypto's stateRef.current
    ui,           \* device -> ChatPage's React state
    tasks,        \* device -> running asynchronous handler invocations
    inbox,        \* device -> socket messages the relay has still to deliver
    directory,    \* the public-key directory (HTTP collaborator)
    rnd,          \* device -> number of random draws made so far
    used,         \* inputs consumed so far (requests, sends, restarts, ...)
    hist,         \* history: what was emitted, encapsulated and handled
    scn           \* the inputs the environment may give in this run

vars == <<dbIdentity, dbPeers, dbMessages, mem, ui, tasks, inbox, directory,
          rnd, used, hist, scn>>

----------------------------------------------------------------------------
\* Bounds of the model.

\* chat requests one user types in a run with repeated handshakes
MaxRequests == 3
\* requests one user accepts in a run with repeated handshakes
MaxAccepts == 2
\* texts one user sends in a run
MaxSends == 2
\* page reloads of one device in a run
MaxRestarts == 1
\* envelopes the relay alters in a run
MaxTamper == 1
\* handler invocations running at once on one device
MaxTasks == 3
\* times one user clears the site data in a run
MaxWipes == 1
\* times one page is reloaded in a run of the publishing scenario
MaxReloads == 2

\* Length in bytes of a modelled Falcon public key (the shortest length
\* storeFalconPeerKey accepts).
FalconPkBytes == 16

Users == {"alice", "bob", "carol"}
\* "hi"
Texts == {<<104, 105>>}
Passphrase == "user-passphrase"

UIdx(u) == CASE u = "alice" -> 1 [] u = "bob" -> 2 [] OTHER -> 3

\* A JavaScript value that may be null/undefined: <<>> or <<v>>.
None == <<>>
Some(v) == <<v>>
IsSome(o) == Len(o) = 1
Val(o) == o[1]

----------------------------------------------------------------------------
\* cryptoUtils.js: conversions.

\* bufToHex / arrayBufferToHex: two hex digits per byte, high digit first.
bufToHex(buffer) ==
    [i \in 1..(2 * Len(buffer)) |->
        IF i % 2 = 1 THEN buffer[(i + 1) \div 2] \div 16
                     ELSE buffer[i \div 2] % 16]

arrayBufferToHex(buffer) ==
    [i \in 1..(2 * Len(buffer)) |->
        IF i % 2 = 1 THEN buffer[(i + 1) \div 2] \div 16
                     ELSE buffer[i \div 2] % 16]

\* hexToBuf: hex.match(/.{2}/g) takes the complete pairs (a trailing odd
\* digit is dropped), parseInt(pair, 16) each.  Called only on hex of at
\* least one byte (the match of a shorter string is null).
hexToBuf(hex) ==
    [i \in 1..(Len(hex) \div 2) |-> hex[2 * i - 1] * 16 + hex[2 * i]]

\* hexToArrayBuffer: new Uint8Array(hex.length / 2) filled pair by pair.
\* Called only on hex the client wrote itself (even length).
hexToArrayBuffer(hex) ==
    [i \in 1..(Len(hex) \div 2) |-> hex[2 * i - 1] * 16 + hex[2 * i]]

\* A hexToUint8 that reads the low digit of each pair first.
hexToUint8LowFirst(hex) ==
    IF Len(hex) % 2 # 0 THEN None
    ELSE Some([i \in 1..(Len(hex) \div 2) |-> hex[2 * i - 1] + hex[2 * i] * 16])

\* cryptomanager.js hexToUint8: throws on odd length (None), else the bytes.
hexToUint8(hex) ==
    IF Len(hex) % 2 # 0 THEN None
    ELSE Some([i \in 1..(Len(hex) \div 2) |-> hex[2 * i - 1] * 16 + hex[2 * i]])

\* btoa of a string of char codes below 256: every three codes give four
\* base64 digits 0..63; 64 stands for the padding character "=".
RECURSIVE btoa(_)
btoa(binary) ==
    CASE Len(binary) = 0 -> <<>>
      [] Len(binary) = 1 ->
            <<binary[1] \div 4, (binary[1] % 4) * 16, 64, 64>>
      [] Len(binary) = 2 ->
            <<binary[1] \div 4, (binary[1] % 4) * 16 + binary[2] \div 16,
              (binary[2] % 16) * 4, 64>>
      [] OTHER ->
            <<binary[1] \div 4, (binary[1] % 4) * 16 + binary[2] \div 16,
              (binary[2] % 16) * 4 + binary[3] \div 64, binary[3] % 64>>
            \o btoa(SubSeq(binary, 4, Len(binary)))

\* atob: the padding is removed, then every eight bits of the digits give
\* one char code.  Called only on strings the directory got from btoa.
atob(base64) ==
    LET n == Len(base64)
        pad == IF n % 4 = 0 /\ n > 0 /\ base64[n] = 64
               THEN (IF base64[n - 1] = 64 THEN 2 ELSE 1)
               ELSE 0
        d == SubSeq(base64, 1, n - pad)
    IN [i \in 1..((Len(d) * 6) \div 8) |->
            LET s == (8 * (i - 1)) \div 6 + 1
                shift == (8 * (i - 1)) % 6
            IN CASE shift = 0 -> d[s] * 4 + d[s + 1] \div 16
                 [] shift = 2 -> (d[s] % 16) * 16 + d[s + 1] \div 4
                 [] OTHER -> (d[s] % 4) * 64 + d[s + 1]]

\* ChatPage.jsx uint8ToBase64: String.fromCharCode of the bytes, chunk by
\* chunk, then btoa.  base64ToUint8: atob, then charCodeAt of every char.
uint8ToBase64(uint8Arr) == btoa(uint8Arr)
base64ToUint8(base64) == atob(base64)

\* JSON.stringify of a value sent on the socket and new Uint8Array(...) of
\* the parsed value on the other side: Array.from(bytes) arrives as an array
\* and converts back to the bytes; a Uint8Array put directly in the object
\* is serialised as {"0":..,"1":..}, which has no length, so new Uint8Array
\* of it is empty.
JsonArray(bytes) == [json |-> "array", v |-> bytes]
JsonTypedArray(bytes) == [json |-> "object", v |-> bytes]
Uint8ArrayOfJson(x) == IF x.json = "array" THEN x.v ELSE <<>>

----------------------------------------------------------------------------
\* Library primitives (symbolic).

\* crypto.getRandomValues / key generation randomness: the k-th next draw
\* of device u.
Draw(u, k) == <<UIdx(u), rnd[u] + k>>

KeyId(key) == SubSeq(key, 2, 3)

\* MlKem768.generateKeyPair()
KemPk(seed) == <<1>> \o seed
KemSk(seed) == <<2>> \o seed
\* falcon.keyPair()
FalconPk(seed) == <<3>> \o seed \o [i \in 1..(FalconPkBytes - 3) |-> 0]
FalconSk(seed) == <<4>> \o seed

IsKemPk(b) == Len(b) = 3 /\ b[1] = 1
IsKemSk(b) == Len(b) = 3 /\ b[1] = 2
IsKemCt(b) == Len(b) = 5 /\ b[1] = 6
IsFalconPk(b) == Len(b) >= 3 /\ b[1] = 3
IsFalconSk(b) == Len(b) = 3 /\ b[1] = 4

\* kem.encap(pk) with randomness r: [ct, ss]
EncapCt(pk, r) == <<6>> \o KeyId(pk) \o r
EncapSs(pk, r) == <<5>> \o KeyId(pk) \o r
\* kem.decap(ct, sk): the encapsulated secret under the matching secret key,
\* ML-KEM's implicit-rejection secret under any other.
DecapSs(ct, sk) ==
    IF KeyId(sk) = SubSeq(ct, 2, 3)
    THEN <<5>> \o SubSeq(ct, 2, 5)
    ELSE <<7>> \o KeyId(sk) \o SubSeq(ct, 2, 5)

\* falcon.signDetached(msg, sk) / falcon.verifyDetached(sig, msg, pk)
SignDetached(msg, sk) == [signer |-> KeyId(sk), msg |-> msg, intact |-> TRUE]
VerifyDetached(sig, msg, pk) ==
    /\ IsFalconPk(pk)
    /\ sig.intact
    /\ sig.signer = KeyId(pk)
    /\ sig.msg = msg

\* crypto.subtle.importKey("raw", ss, AES-GCM): the raw secret is the key.
ImportRawKey(ss) == [raw |-> ss]
\* PBKDF2 (importKey + deriveKey of the platform): a key determined by the
\* passphrase and the salt.
Pbkdf2(passphrase, salt) ==
    [raw |-> <<8, IF passphrase = Passphrase THEN 1 ELSE 2>> \o salt]
\* crypto.subtle.encrypt with AES-GCM: the ciphertext (tag appended) is
\* written as bytes that name the key, the IV and the plaintext.
AesGcmEncrypt(key, iv, plaintext) ==
    <<9, Len(key.raw), Len(iv)>> \o key.raw \o iv \o plaintext \o <<1>>
AesGcmWellFormed(ct) ==
    /\ Len(ct) >= 4
    /\ ct[1] = 9
    /\ Len(ct) >= 4 + ct[2] + ct[3]
AesGcmKeyOf(ct) == SubSeq(ct, 4, 3 + ct[2])
AesGcmIvOf(ct) == SubSeq(ct, 4 + ct[2], 3 + ct[2] + ct[3])
AesGcmPlain(ct) == SubSeq(ct, 4 + ct[2] + ct[3], Len(ct) - 1)
\* crypto.subtle.decrypt: the tag verifies only for the key and IV the
\* ciphertext was made with and only if no byte was altered.
AesGcmOpens(key, iv, ct) ==
    /\ AesGcmWellFormed(ct)
    /\ AesGcmKeyOf(ct) = key.raw
    /\ AesGcmIvOf(ct) = iv
    /\ ct[Len(ct)] = 1

\* TextEncoder.encode / TextDecoder.decode: texts are sequences of ASCII
\* codes, which UTF-8 encodes as the same bytes.
TextEncode(text) == [i \in 1..Len(text) |-> text[i] % 256]
TextDecode(bytes) == [i \in 1..Len(bytes) |-> bytes[i]]

----------------------------------------------------------------------------
\* cryptoUtils.js: key derivation and AES-GCM of hex strings.

deriveKey(passphrase, salt) == Pbkdf2(passphrase, salt)

\* aesEncrypt(key, plainHex) with the IV drawn by the call.
aesEncrypt(key, plainHex, iv) ==
    [iv |-> iv, ciphertext |-> AesGcmEncrypt(key, iv, hexToBuf(plainHex))]

\* An aesDecrypt that does not check the tag.
aesDecryptUnchecked(key, iv, ciphertext) ==
    IF AesGcmWellFormed(ciphertext)
    THEN Some(bufToHex(AesGcmPlain(ciphertext)))
    ELSE None

\* aesDecrypt(key, iv, ciphertext): the hex of the plaintext, or a throw.
aesDecrypt(key, iv, ciphertext) ==
    IF AesGcmOpens(key, iv, ciphertext)
    THEN Some(bufToHex(AesGcmPlain(ciphertext)))
    ELSE None

----------------------------------------------------------------------------
\* db.js and secureStorage.js: the three IndexedDB tables and the functions
\* that read and write them.  A table is the sequence of its rows in
\* primary-key order; the functions below are the pure part of each
\* operation (what it reads, the row it writes).

\* A JavaScript value handed in as key material: a string (characters:
\* 0..15 the hex digits, 16 the letter x, 17 any other character), a
\* Uint8Array, a plain array, an ArrayBuffer, or something else.
JsString(chars) == [t |-> "string", v |-> chars]
JsUint8Array(bytes) == [t |-> "u8", v |-> bytes]
JsArray(bytes) == [t |-> "array", v |-> bytes]
JsArrayBuffer(bytes) == [t |-> "buffer", v |-> bytes]

\* str.startsWith("0x") ? str.slice(2) : str
Strip0x(chars) ==
    IF Len(chars) >= 2 /\ chars[1] = 0 /\ chars[2] = 16
    THEN SubSeq(chars, 3, Len(chars))
    ELSE chars

\* identity: "&userId" is the unique primary key, so put replaces the row
\* of the same userId.
IdentityGet(table, userId) ==
    LET hits == {i \in 1..Len(table) : table[i].userId = userId}
    IN IF hits = {} THEN None ELSE Some(table[CHOOSE i \in hits : TRUE])

\* A put that adds the row whatever the table holds.
IdentityAdd(table, row) == Append(table, row)

IdentityPut(table, row) ==
    IF \E i \in 1..Len(table) : table[i].userId = row.userId
    THEN [i \in 1..Len(table) |->
            IF table[i].userId = row.userId THEN row ELSE table[i]]
    ELSE Append(table, row)

\* storeIdentityKeys: the row written, given the salt and the two IVs drawn.
storeIdentityKeys(userId, passphrase, kyberKeys, falconKeys, salt, ivK, ivF) ==
    LET aesKey == deriveKey(passphrase, salt)
        encKyber == aesEncrypt(aesKey, bufToHex(kyberKeys.sk), ivK)
        encFalcon == aesEncrypt(aesKey, bufToHex(falconKeys.sk), ivF)
    IN [userId |-> userId,
        kyberPk |-> bufToHex(kyberKeys.pk),
        falconPk |-> bufToHex(falconKeys.pk),
        encKyberSk |-> arrayBufferToHex(encKyber.ciphertext),
        kyberIv |-> arrayBufferToHex(encKyber.iv),
        encFalconSk |-> arrayBufferToHex(encFalcon.ciphertext),
        falconIv |-> arrayBufferToHex(encFalcon.iv),
        salt |-> arrayBufferToHex(salt)]

\* loadIdentityKeys: "null" (no row), "throw" (a decrypt rejected) or "ok"
\* with the public keys as stored (hex) and the secret keys as hex.
loadIdentityKeys(table, userId, passphrase) ==
    LET got == IdentityGet(table, userId) IN
    IF ~IsSome(got) THEN [st |-> "null"]
    ELSE
      LET row == Val(got)
          aesKey == deriveKey(passphrase, hexToArrayBuffer(row.salt))
          kyberSk == aesDecrypt(aesKey, hexToArrayBuffer(row.kyberIv),
                                hexToArrayBuffer(row.encKyberSk))
          falconSk == aesDecrypt(aesKey, hexToArrayBuffer(row.falconIv),
                                 hexToArrayBuffer(row.encFalconSk))
      IN IF ~IsSome(kyberSk) \/ ~IsSome(falconSk) THEN [st |-> "throw"]
         ELSE [st |-> "ok",
               kyber |-> [pk |-> row.kyberPk, sk |-> Val(kyberSk)],
               falcon |-> [pk |-> row.falconPk, sk |-> Val(falconSk)]]

\* hasIdentity
hasIdentity(table, userId) == IsSome(IdentityGet(table, userId))

\* An addPeer that writes the shared secret as hex, not encrypted.
addPeerUnencrypted(userId, peerId, peerKyberPk, sharedAESKey, passphrase, falconPk, salt, iv) ==
    [userId |-> Some(userId),
     peerId |-> peerId,
     kyberPk |-> Some(peerKyberPk),
     encSharedKey |-> Some(bufToHex(sharedAESKey)),
     iv |-> Some(arrayBufferToHex(iv)),
     salt |-> Some(arrayBufferToHex(salt)),
     falconPk |-> IF IsSome(falconPk) THEN Some(bufToHex(Val(falconPk).v)) ELSE None]

\* addPeer: the record handed to db.peers.add, given the salt and IV drawn.
\* falconPk is None (argument absent or null) or Some(a JavaScript value).
addPeer(userId, peerId, peerKyberPk, sharedAESKey, passphrase, falconPk, salt, iv) ==
    LET aesKey == deriveKey(passphrase, salt)
        enc == aesEncrypt(aesKey, bufToHex(sharedAESKey), iv)
        fk == IF ~IsSome(falconPk) THEN None
              ELSE CASE Val(falconPk).t = "string" -> Some(Strip0x(Val(falconPk).v))
                     [] Val(falconPk).t \in {"u8", "array", "buffer"} ->
                            Some(bufToHex(Val(falconPk).v))
                     [] OTHER -> None
    IN [userId |-> Some(userId),
        peerId |-> peerId,
        kyberPk |-> Some(peerKyberPk),
        encSharedKey |-> Some(arrayBufferToHex(enc.ciphertext)),
        iv |-> Some(arrayBufferToHex(enc.iv)),
        salt |-> Some(arrayBufferToHex(salt)),
        falconPk |-> fk]

\* db.peers.add: "++id" is the primary key, [userId+peerId] and peerId are
\* plain (non-unique) indexes, so add always appends a row.
PeersAdd(table, record) == Append(table, record)

\* db.peers.where("[userId+peerId]").equals([userId, peerId]).first():
\* the matching row of lowest id.
PeersFirstByPair(table, userId, peerId) ==
    LET hits == {i \in 1..Len(table) :
                    table[i].userId = Some(userId) /\ table[i].peerId = peerId}
    IN IF hits = {} THEN None
       ELSE Some(table[CHOOSE i \in hits : \A j \in hits : i <= j])

\* db.peers.where("peerId").equals(peerId).first(): index of that row, or 0.
PeersFirstIdByPeer(table, peerId) ==
    LET hits == {i \in 1..Len(table) : table[i].peerId = peerId}
    IN IF hits = {} THEN 0 ELSE CHOOSE i \in hits : \A j \in hits : i <= j

\* A deriveStoredSharedKey that answers a missing row with an empty secret.
deriveStoredSharedKeyOrEmpty(table, userId, peerId, passphrase) ==
    LET got == PeersFirstByPair(table, userId, peerId) IN
    IF ~IsSome(got) THEN [st |-> "ok", v |-> <<>>]
    ELSE
      LET row == Val(got)
          aesKey == deriveKey(passphrase, hexToArrayBuffer(Val(row.salt)))
          hex == aesDecrypt(aesKey, hexToArrayBuffer(Val(row.iv)),
                            hexToArrayBuffer(Val(row.encSharedKey)))
      IN IF ~IsSome(hex) THEN [st |-> "throw"]
         ELSE [st |-> "ok", v |-> hexToBuf(Val(hex))]

\* deriveStoredSharedKey: "null" (no row), "throw" or "ok" with the bytes.
deriveStoredSharedKey(table, userId, peerId, passphrase) ==
    LET got == PeersFirstByPair(table, userId, peerId) IN
    IF ~IsSome(got) THEN [st |-> "null"]
    ELSE
      LET row == Val(got)
          aesKey == deriveKey(passphrase, hexToArrayBuffer(Val(row.salt)))
          hex == aesDecrypt(aesKey, hexToArrayBuffer(Val(row.iv)),
                            hexToArrayBuffer(Val(row.encSharedKey)))
      IN IF ~IsSome(hex) THEN [st |-> "throw"]
         ELSE [st |-> "ok", v |-> hexToBuf(Val(hex))]

\* storeMessage: the row added, given the IV drawn and Date.now().
storeMessage(userId, peerId, direction, text, aesCryptoKey, iv, now) ==
    [userId |-> userId,
     peerId |-> peerId,
     direction |-> direction,
     ciphertext |-> AesGcmEncrypt(aesCryptoKey, iv, TextEncode(text)),
     iv |-> iv,
     createdAt |-> now]

\* A getFalconPeerKey that reads the newest row of the peer.
getFalconPeerKeyNewest(table, peerId) ==
    LET hits == {i \in 1..Len(table) : table[i].peerId = peerId}
        id == IF hits = {} THEN 0 ELSE CHOOSE i \in hits : \A j \in hits : i >= j
    IN IF id = 0 THEN None
       ELSE IF ~IsSome(table[id].falconPk) \/ table[id].falconPk = Some(<<>>) THEN None
       ELSE Some(hexToArrayBuffer(Val(table[id].falconPk)))

\* getFalconPeerKey: the key of the first row for peerId, or null.
getFalconPeerKey(table, peerId) ==
    LET id == PeersFirstIdByPeer(table, peerId) IN
    IF id = 0 THEN None
    ELSE IF ~IsSome(table[id].falconPk) \/ table[id].falconPk = Some(<<>>) THEN None
    ELSE Some(hexToArrayBuffer(Val(table[id].falconPk)))

\* Stable sort of message rows by createdAt (Dexie's sortBy: rows collected
\* in primary-key order, then Array.prototype.sort on the key).
RECURSIVE InsertByCreatedAt(_, _)
InsertByCreatedAt(sorted, row) ==
    IF sorted = <<>> THEN <<row>>
    ELSE IF sorted[Len(sorted)].createdAt <= row.createdAt
         THEN Append(sorted, row)
         ELSE Append(InsertByCreatedAt(SubSeq(sorted, 1, Len(sorted) - 1), row),
                     sorted[Len(sorted)])

RECURSIVE SortByCreatedAt(_)
SortByCreatedAt(rows) ==
    IF rows = <<>> THEN <<>>
    ELSE InsertByCreatedAt(SortByCreatedAt(SubSeq(rows, 1, Len(rows) - 1)),
                           rows[Len(rows)])

\* A loadMessages that gives every entry as the user's own.
loadMessagesAllOwn(table, userId, peerId, aesCryptoKey) ==
    LET msgs == SortByCreatedAt(
                    SelectSeq(table, LAMBDA m : m.userId = userId /\ m.peerId = peerId))
    IN IF \E i \in 1..Len(msgs) : ~AesGcmOpens(aesCryptoKey, msgs[i].iv, msgs[i].ciphertext)
       THEN [st |-> "throw"]
       ELSE [st |-> "ok",
             v |-> [i \in 1..Len(msgs) |->
                      [from |-> userId,
                       text |-> TextDecode(AesGcmPlain(msgs[i].ciphertext))]]]

\* loadMessages: "throw" if a row does not open under the key, else "ok"
\* with the decrypted conversation in createdAt order.
loadMessages(table, userId, peerId, aesCryptoKey) ==
    LET msgs == SortByCreatedAt(
                    SelectSeq(table, LAMBDA m : m.userId = userId /\ m.peerId = peerId))
    IN IF \E i \in 1..Len(msgs) : ~AesGcmOpens(aesCryptoKey, msgs[i].iv, msgs[i].ciphertext)
       THEN [st |-> "throw"]
       ELSE [st |-> "ok",
             v |-> [i \in 1..Len(msgs) |->
                      [from |-> IF msgs[i].direction = "incoming" THEN peerId ELSE userId,
                       text |-> TextDecode(AesGcmPlain(msgs[i].ciphertext))]]]

\* A loadPeerMessages with one try around the whole loop: a failure for one
\* peer empties every conversation.
loadPeerMessagesAllOrNothing(peers, messages, userId) ==
    LET withRow == {p \in Users : \E i \in 1..Len(peers) :
                        peers[i].userId = Some(userId) /\ peers[i].peerId = p}
        restore(p) ==
            LET ss == deriveStoredSharedKey(peers, userId, p, Passphrase) IN
            IF ss.st # "ok" THEN [st |-> "throw"]
            ELSE loadMessages(messages, userId, p, ImportRawKey(ss.v))
    IN [p \in Users |->
            IF p \notin withRow \/ \E q \in withRow : restore(q).st # "ok"
            THEN <<>> ELSE restore(p).v]

\* cryptomanager.js loadPeerMessages: for every peers row of userId, the
\* decrypted conversation with row.peerId, or [] when anything throws.
\* Peers without a row are absent from the result (here: the empty list).
loadPeerMessages(peers, messages, userId) ==
    [p \in Users |->
        IF ~\E i \in 1..Len(peers) : peers[i].userId = Some(userId) /\ peers[i].peerId = p
        THEN <<>>
        ELSE
          LET ss == deriveStoredSharedKey(peers, userId, p, Passphrase) IN
          IF ss.st # "ok" THEN <<>>
          ELSE LET msgs == loadMessages(messages, userId, p, ImportRawKey(ss.v))
               IN IF msgs.st = "ok" THEN msgs.v ELSE <<>>]

----------------------------------------------------------------------------
\* The state of one device.

\* cryptomanager.js useCrypto: stateRef's initial value.
MemInit ==
    [userId |-> None,
     kyberKeys |-> [kem |-> FALSE, pk |-> None, sk |-> None],
     falconKeys |-> [pk |-> None, sk |-> None],
     sharedSecrets |-> [p \in Users |-> None],
     aesKeys |-> [p \in Users |-> None]]

\* ChatPage.jsx: the useState initial values.
UiInit ==
    [activePeer |-> None,
     falconPeerKey |-> [p \in Users |-> None],
     incomingRequests |-> <<>>,
     messages |-> [p \in Users |-> <<>>]]

\* The initKeys effect, started when ChatPage mounts.
InitKeysTask == [kind |-> "initKeys", pc |-> "get"]

RemoveAt(seq, i) == SubSeq(seq, 1, i - 1) \o SubSeq(seq, i + 1, Len(seq))

UsedInit ==
    [req |-> [u \in Users |-> 0],
     accept |-> [u \in Users |-> 0],
     send |-> [u \in Users |-> 0],
     restart |-> [u \in Users |-> 0],
     wipe |-> [u \in Users |-> 0],
     tamper |-> 0]

\* (requested, received: the chat_request messages a device sent to and
\* took from each peer; generated: the keys in state when generateKeys
\* stored the identity.)
HistInit ==
    [sent |-> {}, encaps |-> {}, decaps |-> {},
     taken |-> [u \in Users |-> 0],
     requested |-> [u \in Users |-> [p \in Users |-> 0]],
     received |-> [u \in Users |-> [p \in Users |-> 0]],
     generated |-> [u \in Users |-> None],
     handled |-> [u \in Users |-> {}],
     lastKeys |-> [u \in Users |-> [p \in Users |-> None]]]

\* What the history notes about a handled envelope: its place among the
\* chat envelopes the receiver took from the socket (arrival), what the
\* receiver had when it arrived (pre) and when decryptAES was entered and
\* looked for the session key (look), the places its record and its
\* displayed entry took (storedAs, shownAs; 0 for none), and how it ended.
Handled(t, outcome) ==
    [env |-> t.data, arrival |-> t.arrival, pre |-> t.pre, look |-> t.look,
     storedAs |-> t.storedAs, shownAs |-> t.shownAs,
     persisted |-> t.persisted, verified |-> t.verified, outcome |-> outcome]

\* A fresh install of every device of the scenario, each page just mounted.
InitWith(scenario) ==
    /\ scn = scenario
    /\ dbIdentity = [u \in Users |-> <<>>]
    /\ dbPeers = [u \in Users |-> <<>>]
    /\ dbMessages = [u \in Users |-> <<>>]
    /\ mem = [u \in Users |-> MemInit]
    /\ ui = [u \in Users |-> UiInit]
    /\ tasks = [u \in Users |-> IF u \in scenario.devices THEN <<InitKeysTask>> ELSE <<>>]
    /\ inbox = [u \in Users |-> <<>>]
    /\ directory = [u \in Users |-> None]
    /\ rnd = [u \in Users |-> 0]
    /\ used = UsedInit
    /\ hist = HistInit

\* Task i of device u is a running `kind` handler at position pc.
At(u, i, kind, pc) ==
    i <= Len(tasks[u]) /\ tasks[u][i].kind = kind /\ tasks[u][i].pc = pc

HasTask(u, kind) == \E i \in 1..Len(tasks[u]) : tasks[u][i].kind = kind

\* With scn.gate the user and the relay leave a page alone until its
\* initKeys has finished, and nobody chats before every device of the
\* scenario has an identity.
Ready(u) ==
    scn.gate =>
        /\ ~HasTask(u, "initKeys")
        /\ \A d \in scn.devices : dbIdentity[d] # <<>> /\ ~HasTask(d, "initKeys")

----------------------------------------------------------------------------
\* ChatPage.jsx initKeys (lines 22-60) with cryptomanager.js loadKeys,
\* loadPeerMessages, generateKeys and getMyPublicKey.

\* const res = await db.identity.get(userId)
\* An initKeys that generates keys whatever the store holds.
InitKeysGetAlwaysGenerate(u, i) ==
    /\ At(u, i, "initKeys", "get")
    /\ tasks' = [tasks EXCEPT ![u][i].pc = "genKyber"]
    /\ UNCHANGED <<dbIdentity, dbPeers, dbMessages, mem, ui, inbox, directory,
                   rnd, used, hist, scn>>

InitKeysGet(u, i) ==
    /\ At(u, i, "initKeys", "get")
    /\ tasks' = [tasks EXCEPT ![u][i].pc =
                    IF IsSome(IdentityGet(dbIdentity[u], u)) THEN "load" ELSE "genKyber"]
    /\ UNCHANGED <<dbIdentity, dbPeers, dbMessages, mem, ui, inbox, directory,
                   rnd, used, hist, scn>>

\* A loadKeys that takes each secret key from the other key pair.
loadKeysCrossed(m, userId, loaded) ==
    IF loaded.st # "ok" THEN m
    ELSE
      LET ksk == hexToUint8(loaded.falcon.sk)
          kpk == hexToUint8(loaded.kyber.pk)
          fsk == hexToUint8(loaded.kyber.sk)
          fpk == hexToUint8(loaded.falcon.pk)
          m1 == [m EXCEPT !.kyberKeys.kem = TRUE]
          m2 == [m1 EXCEPT !.kyberKeys.sk = ksk]
          m3 == [m2 EXCEPT !.kyberKeys.pk = kpk]
          m4 == [m3 EXCEPT !.falconKeys.sk = fsk]
          m5 == [m4 EXCEPT !.falconKeys.pk = fpk]
      IN IF ~IsSome(ksk) THEN m1
         ELSE IF ~IsSome(kpk) THEN m2
         ELSE IF ~IsSome(fsk) THEN m3
         ELSE IF ~IsSome(fpk) THEN m4
         ELSE [m5 EXCEPT !.userId = Some(userId)]

\* loadKeys: the state after its assignments, given loadIdentityKeys'
\* result; a null result or a throw leaves the state as it was, a throw of
\* hexToUint8 leaves the assignments made before it.
loadKeys(m, userId, loaded) ==
    IF loaded.st # "ok" THEN m
    ELSE
      LET ksk == hexToUint8(loaded.kyber.sk)
          kpk == hexToUint8(loaded.kyber.pk)
          fsk == hexToUint8(loaded.falcon.sk)
          fpk == hexToUint8(loaded.falcon.pk)
          m1 == [m EXCEPT !.kyberKeys.kem = TRUE]
          m2 == [m1 EXCEPT !.kyberKeys.sk = ksk]
          m3 == [m2 EXCEPT !.kyberKeys.pk = kpk]
          m4 == [m3 EXCEPT !.falconKeys.sk = fsk]
          m5 == [m4 EXCEPT !.falconKeys.pk = fpk]
      IN IF ~IsSome(ksk) THEN m1
         ELSE IF ~IsSome(kpk) THEN m2
         ELSE IF ~IsSome(fsk) THEN m3
         ELSE IF ~IsSome(fpk) THEN m4
         ELSE [m5 EXCEPT !.userId = Some(userId)]

loadKeysThrows(loaded) ==
    \/ loaded.st # "ok"
    \/ ~IsSome(hexToUint8(loaded.kyber.sk))
    \/ ~IsSome(hexToUint8(loaded.kyber.pk))
    \/ ~IsSome(hexToUint8(loaded.falcon.sk))
    \/ ~IsSome(hexToUint8(loaded.falcon.pk))

\* await crypto.loadKeys(userId)
InitKeysLoad(u, i) ==
    /\ At(u, i, "initKeys", "load")
    /\ LET loaded == loadIdentityKeys(dbIdentity[u], u, Passphrase) IN
        /\ mem' = [mem EXCEPT ![u] = loadKeys(@, u, loaded)]
        /\ tasks' = IF loadKeysThrows(loaded)
                    THEN [tasks EXCEPT ![u] = RemoveAt(@, i)]
                    ELSE [tasks EXCEPT ![u][i].pc = "restore"]
    /\ UNCHANGED <<dbIdentity, dbPeers, dbMessages, ui, inbox, directory,
                   rnd, used, hist, scn>>

\* A restore that moves the history into the page: the rows are deleted
\* once read.
InitKeysRestoreMoving(u, i) ==
    /\ At(u, i, "initKeys", "restore")
    /\ ui' = [ui EXCEPT ![u].messages = loadPeerMessages(dbPeers[u], dbMessages[u], u)]
    /\ dbMessages' = [dbMessages EXCEPT ![u] = <<>>]
    /\ tasks' = [tasks EXCEPT ![u] = RemoveAt(@, i)]
    /\ UNCHANGED <<dbIdentity, dbPeers, mem, inbox, directory,
                   rnd, used, hist, scn>>

\* const restored = await crypto.loadPeerMessages(userId); setMessages(restored)
InitKeysRestore(u, i) ==
    /\ At(u, i, "initKeys", "restore")
    /\ ui' = [ui EXCEPT ![u].messages = loadPeerMessages(dbPeers[u], dbMessages[u], u)]
    /\ tasks' = [tasks EXCEPT ![u] = RemoveAt(@, i)]
    /\ UNCHANGED <<dbIdentity, dbPeers, dbMessages, mem, inbox, directory,
                   rnd, used, hist, scn>>

\* generateKeys up to the Kyber key pair: state.kyberKeys and state.userId.
InitKeysGenKyber(u, i) ==
    /\ At(u, i, "initKeys", "genKyber")
    /\ mem' = [mem EXCEPT ![u].kyberKeys =
                    [kem |-> TRUE, pk |-> Some(KemPk(Draw(u, 1))), sk |-> Some(KemSk(Draw(u, 1)))],
                  ![u].userId = Some(u)]
    /\ rnd' = [rnd EXCEPT ![u] = @ + 1]
    /\ tasks' = [tasks EXCEPT ![u][i].pc = "genFalcon"]
    /\ UNCHANGED <<dbIdentity, dbPeers, dbMessages, ui, inbox, directory, used, hist, scn>>

\* generateKeys: the Falcon key pair, state.falconKeys.
InitKeysGenFalcon(u, i) ==
    /\ At(u, i, "initKeys", "genFalcon")
    /\ mem' = [mem EXCEPT ![u].falconKeys =
                    [pk |-> Some(FalconPk(Draw(u, 1))), sk |-> Some(FalconSk(Draw(u, 1)))]]
    /\ rnd' = [rnd EXCEPT ![u] = @ + 1]
    /\ tasks' = [tasks EXCEPT ![u][i].pc = "store"]
    /\ UNCHANGED <<dbIdentity, dbPeers, dbMessages, ui, inbox, directory, used, hist, scn>>

\* The directory's publish_kem: the keys as posted, under the user's id.
PublishKem(dir, user, kemPub, falconPub) ==
    [dir EXCEPT ![user] = Some([kem_pub |-> kemPub, falcon_pub |-> falconPub])]

\* generateKeys: storeIdentityKeys writes the row; then getMyPublicKey and
\* the POST to publish_kem, which fails (the catch logs it) only if the
\* scenario lets the directory fail.
InitKeysStore(u, i) ==
    /\ At(u, i, "initKeys", "store")
    /\ dbIdentity' = [dbIdentity EXCEPT ![u] =
            IdentityPut(@, storeIdentityKeys(u, Passphrase,
                [pk |-> Val(mem[u].kyberKeys.pk), sk |-> Val(mem[u].kyberKeys.sk)],
                [pk |-> Val(mem[u].falconKeys.pk), sk |-> Val(mem[u].falconKeys.sk)],
                Draw(u, 1), Draw(u, 2), Draw(u, 3)))]
    /\ rnd' = [rnd EXCEPT ![u] = @ + 3]
    /\ \/ directory' = PublishKem(directory, u,
                            uint8ToBase64(Val(mem[u].kyberKeys.pk)),
                            uint8ToBase64(Val(mem[u].falconKeys.pk)))
       \/ scn.dirFail /\ UNCHANGED directory
    /\ hist' = [hist EXCEPT !.generated[u] =
            Some([kyberKeys |-> mem[u].kyberKeys, falconKeys |-> mem[u].falconKeys])]
    /\ tasks' = [tasks EXCEPT ![u] = RemoveAt(@, i)]
    /\ UNCHANGED <<dbPeers, dbMessages, mem, ui, inbox, used, scn>>

\* The page is reloaded: the useCrypto state, the React state and every
\* running handler are gone, IndexedDB stays, initKeys starts again.  The
\* history notes the envelopes cut off and the session keys held for the
\* peers with no handshake under way.
Restart(u) ==
    /\ used.restart[u] < scn.budget.restart[u]
    /\ Ready(u)
    /\ used' = [used EXCEPT !.restart[u] = @ + 1]
    /\ mem' = [mem EXCEPT ![u] = MemInit]
    /\ ui' = [ui EXCEPT ![u] = UiInit]
    /\ tasks' = [tasks EXCEPT ![u] = <<InitKeysTask>>]
    /\ hist' = [hist EXCEPT
            !.lastKeys[u] = [p \in Users |->
                IF \E i \in 1..Len(tasks[u]) :
                        tasks[u][i].kind \in {"accept", "decap"} /\ tasks[u][i].peer = p
                THEN None ELSE mem[u].aesKeys[p]],
            !.handled[u] = @ \cup {Handled(tasks[u][i], "Interrupted") :
                                    i \in {j \in 1..Len(tasks[u]) : tasks[u][j].kind = "chat"}}]
    /\ UNCHANGED <<dbIdentity, dbPeers, dbMessages, inbox, directory, rnd, scn>>

\* The user clears the site data of the browser: the CryptoChatDB database
\* is gone (Dexie creates it empty again) and the page is loaded anew.  The
\* directory keeps what the device published before.
ClearSiteData(u) ==
    /\ used.wipe[u] < scn.budget.wipe[u]
    /\ ~HasTask(u, "initKeys")
    /\ dbIdentity[u] # <<>>
    /\ used' = [used EXCEPT !.wipe[u] = @ + 1]
    /\ dbIdentity' = [dbIdentity EXCEPT ![u] = <<>>]
    /\ dbPeers' = [dbPeers EXCEPT ![u] = <<>>]
    /\ dbMessages' = [dbMessages EXCEPT ![u] = <<>>]
    /\ mem' = [mem EXCEPT ![u] = MemInit]
    /\ ui' = [ui EXCEPT ![u] = UiInit]
    /\ tasks' = [tasks EXCEPT ![u] = <<InitKeysTask>>]
    /\ hist' = [hist EXCEPT
            !.lastKeys[u] = [p \in Users |-> None],
            !.handled[u] = @ \cup {Handled(tasks[u][i], "Interrupted") :
                                    i \in {j \in 1..Len(tasks[u]) : tasks[u][j].kind = "chat"}}]
    /\ UNCHANGED <<inbox, directory, rnd, scn>>

----------------------------------------------------------------------------
\* secureStorage.js storeFalconPeerKey (lines 145-193) and the React
\* helpers around the peer's signature key.

FalconKeyMinBytes == 16
FalconKeyMaxBytes == 8192

\* isHexString: /^[0-9a-fA-F]+$/
isHexString(chars) == chars # <<>> /\ \A i \in 1..Len(chars) : chars[i] \in 0..15

\* A validation whose upper bound is exclusive.
validateFalconPublicKeyExclusive(input) ==
    CASE input.t = "string" ->
            LET candidate == Strip0x(input.v) IN
            /\ Len(candidate) % 2 = 0
            /\ isHexString(candidate)
            /\ Len(candidate) \div 2 >= FalconKeyMinBytes
            /\ Len(candidate) \div 2 < FalconKeyMaxBytes
      [] input.t \in {"u8", "array", "buffer"} ->
            Len(input.v) >= FalconKeyMinBytes /\ Len(input.v) < FalconKeyMaxBytes
      [] OTHER -> FALSE

validateFalconPublicKey(input) ==
    CASE input.t = "string" ->
            LET candidate == Strip0x(input.v) IN
            /\ Len(candidate) % 2 = 0
            /\ isHexString(candidate)
            /\ Len(candidate) \div 2 >= FalconKeyMinBytes
            /\ Len(candidate) \div 2 <= FalconKeyMaxBytes
      [] input.t \in {"u8", "array", "buffer"} ->
            Len(input.v) >= FalconKeyMinBytes /\ Len(input.v) <= FalconKeyMaxBytes
      [] OTHER -> FALSE

\* The hex storeFalconPeerKey stores for an accepted key.
FalconKeyHex(falconPk) ==
    IF falconPk.t = "string" THEN Strip0x(falconPk.v) ELSE bufToHex(falconPk.v)

\* An update that writes the key into every row of the peer of that row.
PeersUpdateFalconEveryRow(table, id, hex) ==
    [k \in 1..Len(table) |->
        IF table[k].peerId = table[id].peerId
        THEN [table[k] EXCEPT !.falconPk = Some(hex)]
        ELSE table[k]]

\* db.peers.update(existing.id, { falconPk: hex })
PeersUpdateFalcon(table, id, hex) ==
    [table EXCEPT ![id].falconPk = Some(hex)]

\* db.peers.add({ peerId, falconPk: hex })
FalconOnlyRow(peerId, hex) ==
    [userId |-> None, peerId |-> peerId, kyberPk |-> None, encSharedKey |-> None,
     iv |-> None, salt |-> None, falconPk |-> Some(hex)]

\* The directory's get_kyber_pub / get_falcon_pub: what was published.
GetKyberPub(dir, user) == IF IsSome(dir[user]) THEN Some(Val(dir[user]).kem_pub) ELSE None
GetFalconPub(dir, user) == IF IsSome(dir[user]) THEN Some(Val(dir[user]).falcon_pub) ELSE None

\* setActivePeer(p), and the fetchOnlineStatus effect (lines 64-102) that
\* runs when activePeer changed: it looks the peer's key up when the cache
\* of that render has none.
EffectTasks(uiu, p) ==
    IF uiu.activePeer # Some(p) /\ ~IsSome(uiu.falconPeerKey[p])
    THEN <<[kind |-> "effect", pc |-> "lookup", peer |-> p]>>
    ELSE <<>>

\* key = await crypto.getFalconPublicKey(activePeer); setFalconPeerKey(...)
EffectLookup(u, i) ==
    /\ At(u, i, "effect", "lookup")
    /\ ui' = [ui EXCEPT ![u].falconPeerKey[tasks[u][i].peer] =
                    getFalconPeerKey(dbPeers[u], tasks[u][i].peer)]
    /\ tasks' = [tasks EXCEPT ![u] = RemoveAt(@, i)]
    /\ UNCHANGED <<dbIdentity, dbPeers, dbMessages, mem, inbox, directory,
                   rnd, used, hist, scn>>

\* storeFalconPeerKey: const existing = await db.peers.where("peerId")...first()
FalconKeyRead(u, i) ==
    /\ i <= Len(tasks[u]) /\ tasks[u][i].pc = "fkRead"
    /\ tasks' = [tasks EXCEPT ![u][i].pc = "fkWrite",
                              ![u][i].existing = PeersFirstIdByPeer(dbPeers[u], tasks[u][i].peer)]
    /\ UNCHANGED <<dbIdentity, dbPeers, dbMessages, mem, ui, inbox, directory,
                   rnd, used, hist, scn>>

\* storeFalconPeerKey: update of the existing row, or add of a new one.
\* The unawaited addFalconKey of acceptChatRequest ends here;
\* sendChatRequest goes on to its lookup of the session row.
FalconKeyWrite(u, i) ==
    /\ i <= Len(tasks[u]) /\ tasks[u][i].pc = "fkWrite"
    /\ LET t == tasks[u][i]
           hex == FalconKeyHex(t.peerFk)
       IN dbPeers' = [dbPeers EXCEPT ![u] =
                IF t.existing > 0 THEN PeersUpdateFalcon(@, t.existing, hex)
                ELSE PeersAdd(@, FalconOnlyRow(t.peer, hex))]
    /\ tasks' = IF tasks[u][i].kind = "request"
                THEN [tasks EXCEPT ![u][i].pc = "exists"]
                ELSE [tasks EXCEPT ![u] = RemoveAt(@, i)]
    /\ UNCHANGED <<dbIdentity, dbMessages, mem, ui, inbox, directory,
                   rnd, used, hist, scn>>

----------------------------------------------------------------------------
\* ChatPage.jsx sendChatRequest (lines 226-254).

\* socket.send: the relay forwards the message to the socket of data.to.
SocketSend(box, msg) == [box EXCEPT ![msg.to] = Append(@, msg)]

\* The user types peer p and clicks: the stored key is looked up and, when
\* there is none, fetched from the directory.
SendChatRequestStart(u, p) ==
    /\ \E r \in scn.requests :
            /\ r.from = u /\ r.to = p
            /\ \A q \in r.after : IsSome(PeersFirstByPair(dbPeers[q[1]], q[1], q[2]))
    /\ used.req[u] < scn.budget.req[u]
    /\ Ready(u)
    /\ Len(tasks[u]) < scn.maxTasks
    /\ used' = [used EXCEPT !.req[u] = @ + 1]
    /\ LET existingPk == getFalconPeerKey(dbPeers[u], p)
           fk == GetFalconPub(directory, p)
       IN \/ /\ IsSome(existingPk)
             /\ tasks' = [tasks EXCEPT ![u] =
                            Append(@, [kind |-> "request", pc |-> "exists", peer |-> p])]
          \/ /\ ~IsSome(existingPk) /\ IsSome(fk)
             /\ tasks' = [tasks EXCEPT ![u] =
                    IF validateFalconPublicKey(JsUint8Array(base64ToUint8(Val(fk))))
                    THEN Append(@, [kind |-> "request", pc |-> "fkRead", peer |-> p,
                                    peerFk |-> JsUint8Array(base64ToUint8(Val(fk))),
                                    existing |-> 0])
                    ELSE Append(@, [kind |-> "request", pc |-> "exists", peer |-> p])]
          \/ \* no key published (alert), or the fetch fails: the handler ends
             /\ ~IsSome(existingPk) /\ (~IsSome(fk) \/ scn.dirFail)
             /\ UNCHANGED tasks
    /\ UNCHANGED <<dbIdentity, dbPeers, dbMessages, mem, ui, inbox, directory,
                   rnd, hist, scn>>

\* const exists = await db.peers.where('[userId+peerId]')...first(): an
\* existing session makes the peer the active one, else the request is sent.
SendChatRequestExists(u, i) ==
    /\ At(u, i, "request", "exists")
    /\ LET p == tasks[u][i].peer
           exists == PeersFirstByPair(dbPeers[u], u, p)
       IN IF IsSome(exists)
          THEN /\ ui' = [ui EXCEPT ![u].activePeer = Some(p)]
               /\ tasks' = [tasks EXCEPT ![u] = RemoveAt(@, i) \o EffectTasks(ui[u], p)]
               /\ UNCHANGED <<inbox, hist>>
          ELSE /\ inbox' = SocketSend(inbox, [type |-> "chat_request", from |-> u, to |-> p])
               /\ hist' = [hist EXCEPT !.requested[u][p] = @ + 1]
               /\ tasks' = [tasks EXCEPT ![u] = RemoveAt(@, i)]
               /\ UNCHANGED ui
    /\ UNCHANGED <<dbIdentity, dbPeers, dbMessages, mem, directory, rnd, used, scn>>

\* handler, data.type === "chat_request" (lines 111-113)
HandleChatRequest(u) ==
    /\ inbox[u] # <<>> /\ Head(inbox[u]).type = "chat_request"
    /\ Ready(u)
    /\ inbox' = [inbox EXCEPT ![u] = Tail(@)]
    /\ ui' = [ui EXCEPT ![u].incomingRequests = Append(@, Head(inbox[u]).from)]
    /\ hist' = [hist EXCEPT !.received[u][Head(inbox[u]).from] = @ + 1]
    /\ UNCHANGED <<dbIdentity, dbPeers, dbMessages, mem, tasks, directory,
                   rnd, used, scn>>

----------------------------------------------------------------------------
\* ChatPage.jsx acceptChatRequest (lines 268-303) with cryptomanager.js
\* establishSharedSecret (lines 119-140).

\* An acceptChatRequest that takes the request off the list when the key
\* of the requester cannot be had.
AcceptStartDropping(u, p) ==
    /\ \E k \in 1..Len(ui[u].incomingRequests) : ui[u].incomingRequests[k] = p
    /\ used.accept[u] < scn.budget.accept[u]
    /\ Ready(u)
    /\ Len(tasks[u]) < scn.maxTasks
    /\ used' = [used EXCEPT !.accept[u] = @ + 1]
    /\ LET pk == GetKyberPub(directory, p) IN
       \/ /\ IsSome(pk) /\ mem[u].kyberKeys.kem /\ IsKemPk(base64ToUint8(Val(pk)))
          /\ LET peerPk == base64ToUint8(Val(pk))
                 ct == EncapCt(peerPk, Draw(u, 1))
                 ss == EncapSs(peerPk, Draw(u, 1))
             IN /\ mem' = [mem EXCEPT ![u].sharedSecrets[p] = Some(ss)]
                /\ tasks' = [tasks EXCEPT ![u] =
                        Append(@, [kind |-> "accept", pc |-> "import", peer |-> p,
                                   peerPk |-> peerPk, ct |-> ct, ss |-> ss,
                                   storedFalcon |-> None])]
                /\ hist' = [hist EXCEPT !.encaps =
                        @ \cup {[by |-> u, peer |-> p, ct |-> ct, ss |-> ss]}]
          /\ rnd' = [rnd EXCEPT ![u] = @ + 1]
          /\ UNCHANGED ui
       \/ /\ \/ ~IsSome(pk)
             \/ scn.dirFail
             \/ ~mem[u].kyberKeys.kem
             \/ IsSome(pk) /\ ~IsKemPk(base64ToUint8(Val(pk)))
          /\ ui' = [ui EXCEPT ![u].incomingRequests = SelectSeq(@, LAMBDA q : q # p)]
          /\ UNCHANGED <<mem, tasks, hist, rnd>>
    /\ UNCHANGED <<dbIdentity, dbPeers, dbMessages, inbox, directory, scn>>

\* The user accepts the request of p: the Kyber key is fetched and
\* establishSharedSecret encapsulates against it (state.sharedSecrets set).
\* No key published, a failing fetch, or keys not yet in state (kem is
\* null): the handler ends in its alert or its catch.
AcceptStart(u, p) ==
    /\ \E k \in 1..Len(ui[u].incomingRequests) : ui[u].incomingRequests[k] = p
    /\ used.accept[u] < scn.budget.accept[u]
    /\ Ready(u)
    /\ Len(tasks[u]) < scn.maxTasks
    /\ used' = [used EXCEPT !.accept[u] = @ + 1]
    /\ LET pk == GetKyberPub(directory, p) IN
       \/ /\ IsSome(pk) /\ mem[u].kyberKeys.kem /\ IsKemPk(base64ToUint8(Val(pk)))
          /\ LET peerPk == base64ToUint8(Val(pk))
                 ct == EncapCt(peerPk, Draw(u, 1))
                 ss == EncapSs(peerPk, Draw(u, 1))
             IN /\ mem' = [mem EXCEPT ![u].sharedSecrets[p] = Some(ss)]
                /\ tasks' = [tasks EXCEPT ![u] =
                        Append(@, [kind |-> "accept", pc |-> "import", peer |-> p,
                                   peerPk |-> peerPk, ct |-> ct, ss |-> ss,
                                   storedFalcon |-> None])]
                /\ hist' = [hist EXCEPT !.encaps =
                        @ \cup {[by |-> u, peer |-> p, ct |-> ct, ss |-> ss]}]
          /\ rnd' = [rnd EXCEPT ![u] = @ + 1]
       \/ /\ \/ ~IsSome(pk)
             \/ scn.dirFail
             \/ ~mem[u].kyberKeys.kem
             \/ IsSome(pk) /\ ~IsKemPk(base64ToUint8(Val(pk)))
          /\ UNCHANGED <<mem, tasks, hist, rnd>>
    /\ UNCHANGED <<dbIdentity, dbPeers, dbMessages, ui, inbox, directory, scn>>

\* establishSharedSecret / decapsulate after importKey: state.aesKeys is
\* set and the stored Falcon key of the peer is read for addPeer.
HandshakeImport(u, i) ==
    /\ i <= Len(tasks[u])
    /\ tasks[u][i].kind \in {"accept", "decap"} /\ tasks[u][i].pc = "import"
    /\ mem' = [mem EXCEPT ![u].aesKeys[tasks[u][i].peer] =
                    Some(ImportRawKey(tasks[u][i].ss))]
    /\ tasks' = [tasks EXCEPT ![u][i].pc = "addPeer",
                              ![u][i].storedFalcon =
                                  getFalconPeerKey(dbPeers[u], tasks[u][i].peer)]
    /\ UNCHANGED <<dbIdentity, dbPeers, dbMessages, ui, inbox, directory,
                   rnd, used, hist, scn>>

\* The record establishSharedSecret / decapsulate hands to addPeer.
HandshakeRecord(u, t) ==
    LET row == addPeer(u, t.peer, t.peerPk, t.ss, Passphrase,
                       IF IsSome(t.storedFalcon)
                       THEN Some(JsUint8Array(Val(t.storedFalcon))) ELSE None,
                       Draw(u, 1), Draw(u, 2))
    IN [row EXCEPT !.userId = mem[u].userId]

\* establishSharedSecret: await addPeer(...), then return { ct }.
AcceptAddPeer(u, i) ==
    /\ At(u, i, "accept", "addPeer")
    /\ dbPeers' = [dbPeers EXCEPT ![u] = PeersAdd(@, HandshakeRecord(u, tasks[u][i]))]
    /\ rnd' = [rnd EXCEPT ![u] = @ + 2]
    /\ tasks' = [tasks EXCEPT ![u][i].pc = "finish"]
    /\ UNCHANGED <<dbIdentity, dbMessages, mem, ui, inbox, directory, used, hist, scn>>

\* acceptChatRequest after establishSharedSecret: the Falcon key is fetched,
\* addFalconKey is started (not awaited), the shared_secret message is sent,
\* the peer becomes active and leaves the list of requests.  Without a
\* Falcon key, or when the fetch fails, the handler ends before all that.
AcceptFinish(u, i) ==
    /\ At(u, i, "accept", "finish")
    /\ LET t == tasks[u][i]
           p == t.peer
           fk == GetFalconPub(directory, p)
       IN \/ /\ IsSome(fk)
             /\ LET peerFk == JsUint8Array(base64ToUint8(Val(fk)))
                    addKey == IF validateFalconPublicKey(peerFk)
                              THEN <<[kind |-> "addFalconKey", pc |-> "fkRead", peer |-> p,
                                      peerFk |-> peerFk, existing |-> 0]>>
                              ELSE <<>>
                IN tasks' = [tasks EXCEPT ![u] =
                                RemoveAt(@, i) \o addKey \o EffectTasks(ui[u], p)]
             /\ inbox' = SocketSend(inbox,
                    [type |-> "shared_secret", from |-> u, to |-> p,
                     ct |-> JsonArray(t.ct), peerKyberPk |-> JsonTypedArray(t.peerPk)])
             /\ ui' = [ui EXCEPT ![u].activePeer = Some(p),
                                 ![u].incomingRequests = SelectSeq(@, LAMBDA q : q # p)]
          \/ /\ (~IsSome(fk) \/ scn.dirFail)
             /\ tasks' = [tasks EXCEPT ![u] = RemoveAt(@, i)]
             /\ UNCHANGED <<inbox, ui>>
    /\ UNCHANGED <<dbIdentity, dbPeers, dbMessages, mem, directory, rnd, used, hist, scn>>

----------------------------------------------------------------------------
\* handler, data.type === "shared_secret" (lines 122-134) with
\* cryptomanager.js decapsulate (lines 143-163).

\* The message is taken from the socket and decapsulated with the own
\* secret key (state.sharedSecrets set).  With no keys in state yet, or a
\* malformed ciphertext, decap throws and the catch logs it.
HandleSharedSecret(u) ==
    /\ inbox[u] # <<>> /\ Head(inbox[u]).type = "shared_secret"
    /\ Ready(u)
    /\ Len(tasks[u]) < scn.maxTasks
    /\ inbox' = [inbox EXCEPT ![u] = Tail(@)]
    /\ LET data == Head(inbox[u])
           ct == Uint8ArrayOfJson(data.ct)
           peerPk == Uint8ArrayOfJson(data.peerKyberPk)
       IN IF mem[u].kyberKeys.kem /\ IsSome(mem[u].kyberKeys.sk) /\ IsKemCt(ct)
          THEN LET ss == DecapSs(ct, Val(mem[u].kyberKeys.sk)) IN
               /\ mem' = [mem EXCEPT ![u].sharedSecrets[data.from] = Some(ss)]
               /\ hist' = [hist EXCEPT !.decaps =
                        @ \cup {[by |-> u, peer |-> data.from, ct |-> ct, ss |-> ss]}]
               /\ tasks' = [tasks EXCEPT ![u] =
                        Append(@, [kind |-> "decap", pc |-> "import", peer |-> data.from,
                                   peerPk |-> peerPk, ct |-> ct, ss |-> ss,
                                   storedFalcon |-> None])]
          ELSE UNCHANGED <<mem, tasks, hist>>
    /\ UNCHANGED <<dbIdentity, dbPeers, dbMessages, ui, directory, rnd, used, scn>>

\* decapsulate: await addPeer(...); back in the handler setActivePeer(data.from).
DecapAddPeer(u, i) ==
    /\ At(u, i, "decap", "addPeer")
    /\ dbPeers' = [dbPeers EXCEPT ![u] = PeersAdd(@, HandshakeRecord(u, tasks[u][i]))]
    /\ rnd' = [rnd EXCEPT ![u] = @ + 2]
    /\ ui' = [ui EXCEPT ![u].activePeer = Some(tasks[u][i].peer)]
    /\ tasks' = [tasks EXCEPT ![u] = RemoveAt(@, i) \o EffectTasks(ui[u], tasks[u][i].peer)]
    /\ UNCHANGED <<dbIdentity, dbMessages, mem, inbox, directory, used, hist, scn>>

----------------------------------------------------------------------------
\* ChatPage.jsx handleSend (lines 306-320) with cryptomanager.js
\* sendMessage, encryptAES and signMessage (lines 166-189, 217-221, 250-261).

\* Date.now() of a row added now: later than every row of the table, or,
\* when the scenario lets two rows fall in one millisecond, equal to the
\* latest.
LastCreatedAt(table) ==
    IF table = <<>> THEN 0
    ELSE LET i == CHOOSE i \in 1..Len(table) :
                    \A j \in 1..Len(table) : table[j].createdAt <= table[i].createdAt
         IN table[i].createdAt

NowChoices(table) ==
    IF scn.ties /\ table # <<>>
    THEN {LastCreatedAt(table), LastCreatedAt(table) + 1}
    ELSE {LastCreatedAt(table) + 1}

\* An encryptAES that encrypts under an all-zero key, whatever the session.
encryptAESZeroKey(key, text, iv) ==
    [ciphertext |-> AesGcmEncrypt([raw |-> <<0, 0, 0, 0, 0>>], iv, TextEncode(text)),
     iv |-> iv]

\* encryptAES once state.aesKeys[peerId] is there: the payload.
encryptAES(key, text, iv) ==
    [ciphertext |-> AesGcmEncrypt(key, iv, TextEncode(text)), iv |-> iv]

\* The user types a text and presses send with an active peer.  encryptAES
\* draws the IV and encrypts under the session key in state, or first goes
\* to the store for it.
HandleSendStart(u, text) ==
    /\ IsSome(ui[u].activePeer)
    /\ used.send[u] < scn.budget.send[u]
    /\ Ready(u)
    /\ Len(tasks[u]) < scn.maxTasks
    /\ used' = [used EXCEPT !.send[u] = @ + 1]
    /\ rnd' = [rnd EXCEPT ![u] = @ + 1]
    /\ LET p == Val(ui[u].activePeer)
           t == [kind |-> "send", peer |-> p, text |-> text, iv |-> Draw(u, 1)]
       IN tasks' = [tasks EXCEPT ![u] = Append(@,
            IF IsSome(mem[u].aesKeys[p])
            THEN t @@ [pc |-> "emit",
                       payload |-> encryptAES(Val(mem[u].aesKeys[p]), text, Draw(u, 1))]
            ELSE t @@ [pc |-> "rehydrate", payload |-> None])]
    /\ UNCHANGED <<dbIdentity, dbPeers, dbMessages, mem, ui, inbox, directory, hist, scn>>

\* encryptAES: deriveStoredSharedKey and importKey; a missing or
\* undecryptable secret throws out of sendMessage.
SendRehydrate(u, i) ==
    /\ At(u, i, "send", "rehydrate")
    /\ LET t == tasks[u][i]
           ss == deriveStoredSharedKey(dbPeers[u], Val(mem[u].userId), t.peer, Passphrase)
       IN IF IsSome(mem[u].userId) /\ ss.st = "ok"
          THEN /\ mem' = [mem EXCEPT ![u].aesKeys[t.peer] = Some(ImportRawKey(ss.v))]
               /\ tasks' = [tasks EXCEPT ![u][i].pc = "emit",
                        ![u][i].payload = encryptAES(ImportRawKey(ss.v), t.text, t.iv)]
          ELSE /\ tasks' = [tasks EXCEPT ![u] = RemoveAt(@, i)]
               /\ UNCHANGED mem
    /\ UNCHANGED <<dbIdentity, dbPeers, dbMessages, ui, inbox, directory,
                   rnd, used, hist, scn>>

\* A sendMessage whose storeMessage encrypts the history copy with the IV
\* of the wire payload.
SendEmitSameIv(u, i) ==
    /\ At(u, i, "send", "emit")
    /\ LET t == tasks[u][i] IN
       IF IsSome(mem[u].falconKeys.sk)
       THEN LET msg == [type |-> "chat", to |-> t.peer, payload |-> t.payload,
                        signature |-> SignDetached(t.payload, Val(mem[u].falconKeys.sk)),
                        from |-> u]
            IN /\ inbox' = SocketSend(inbox, msg)
               /\ hist' = [hist EXCEPT !.sent = @ \cup {msg}]
               /\ rnd' = [rnd EXCEPT ![u] = @ + 1]
               /\ tasks' = [tasks EXCEPT ![u][i] =
                        [kind |-> "send", pc |-> "store", peer |-> t.peer, text |-> t.text,
                         key |-> mem[u].aesKeys[t.peer], iv |-> t.payload.iv]]
       ELSE /\ tasks' = [tasks EXCEPT ![u] = RemoveAt(@, i)]
            /\ UNCHANGED <<inbox, hist, rnd>>
    /\ UNCHANGED <<dbIdentity, dbPeers, dbMessages, mem, ui, directory, used, scn>>

\* sendMessage: the payload is signed with state.falconKeys.sk and the chat
\* message goes on the socket; storeMessage is called with the session key
\* now in state and draws its IV.
SendEmit(u, i) ==
    /\ At(u, i, "send", "emit")
    /\ LET t == tasks[u][i] IN
       IF IsSome(mem[u].falconKeys.sk)
       THEN LET msg == [type |-> "chat", to |-> t.peer, payload |-> t.payload,
                        signature |-> SignDetached(t.payload, Val(mem[u].falconKeys.sk)),
                        from |-> u]
            IN /\ inbox' = SocketSend(inbox, msg)
               /\ hist' = [hist EXCEPT !.sent = @ \cup {msg}]
               /\ rnd' = [rnd EXCEPT ![u] = @ + 1]
               /\ tasks' = [tasks EXCEPT ![u][i] =
                        [kind |-> "send", pc |-> "store", peer |-> t.peer, text |-> t.text,
                         key |-> mem[u].aesKeys[t.peer], iv |-> Draw(u, 1)]]
       ELSE /\ tasks' = [tasks EXCEPT ![u] = RemoveAt(@, i)]
            /\ UNCHANGED <<inbox, hist, rnd>>
    /\ UNCHANGED <<dbIdentity, dbPeers, dbMessages, mem, ui, directory, used, scn>>

\* A sendMessage that stores the outgoing record twice.
SendStoreTwice(u, i) ==
    /\ At(u, i, "send", "store")
    /\ LET t == tasks[u][i]
           row == storeMessage(u, t.peer, "outgoing", t.text, Val(t.key), t.iv,
                               LastCreatedAt(dbMessages[u]) + 1)
       IN /\ IsSome(t.key)
          /\ dbMessages' = [dbMessages EXCEPT ![u] = Append(Append(@, row), row)]
          /\ ui' = [ui EXCEPT ![u].messages[t.peer] =
                        Append(@, [from |-> u, text |-> t.text])]
    /\ tasks' = [tasks EXCEPT ![u] = RemoveAt(@, i)]
    /\ UNCHANGED <<dbIdentity, dbPeers, mem, inbox, directory, rnd, used, hist, scn>>

\* storeMessage(fromUserId, peerId, "outgoing", ...), then handleSend's
\* setMessages.
SendStore(u, i) ==
    /\ At(u, i, "send", "store")
    /\ LET t == tasks[u][i] IN
       IF IsSome(t.key)
       THEN \E now \in NowChoices(dbMessages[u]) :
            /\ dbMessages' = [dbMessages EXCEPT ![u] = Append(@,
                    storeMessage(u, t.peer, "outgoing", t.text, Val(t.key), t.iv, now))]
            /\ ui' = [ui EXCEPT ![u].messages[t.peer] =
                        Append(@, [from |-> u, text |-> t.text])]
       ELSE UNCHANGED <<dbMessages, ui>>
    /\ tasks' = [tasks EXCEPT ![u] = RemoveAt(@, i)]
    /\ UNCHANGED <<dbIdentity, dbPeers, mem, inbox, directory, rnd, used, hist, scn>>

----------------------------------------------------------------------------
\* handler, data.type === "chat" (lines 136-188) with cryptomanager.js
\* decryptAES, getFalconPublicKey and verifyMessage.

EndChat(u, i, t, outcome) ==
    /\ tasks' = [tasks EXCEPT ![u] = RemoveAt(@, i)]
    /\ hist' = [hist EXCEPT !.handled[u] = @ \cup
            {Handled([t EXCEPT !.verified = (outcome = "Accepted")], outcome)}]

\* decryptAES entered: with a session key in state, crypto.subtle.decrypt is
\* called with it, else the key is first looked for in the store.
DecryptEntry(u, t) ==
    IF IsSome(mem[u].aesKeys[t.data.from])
    THEN [t EXCEPT !.pc = "decrypted", !.key = mem[u].aesKeys[t.data.from],
                   !.look.keyInState = "yes",
                   !.look.keyOnFile = IsSome(getFalconPeerKey(dbPeers[u], t.data.from))]
    ELSE [t EXCEPT !.pc = "rehydrate", !.look.keyInState = "no",
                   !.look.keyOnFile = IsSome(getFalconPeerKey(dbPeers[u], t.data.from))]

\* The envelope is taken from the socket.  The handler reads activePeer and
\* the falconPeerKey cache of its render; with a cached key for the active
\* peer it goes straight into decryptAES.
HandleChat(u) ==
    /\ inbox[u] # <<>> /\ Head(inbox[u]).type = "chat"
    /\ Ready(u)
    /\ Len(tasks[u]) < scn.maxTasks
    /\ inbox' = [inbox EXCEPT ![u] = Tail(@)]
    /\ LET data == Head(inbox[u])
           ap == ui[u].activePeer
           key == IF IsSome(ap) THEN ui[u].falconPeerKey[Val(ap)] ELSE None
           t == [kind |-> "chat", pc |-> "lookup", data |-> data, ap |-> ap,
                 arrival |-> hist.taken[u] + 1, storedAs |-> 0, shownAs |-> 0,
                 cacheFrom |-> ui[u].falconPeerKey[data.from],
                 key |-> None, text |-> <<>>, persisted |-> FALSE, verified |-> FALSE,
                 look |-> [keyInState |-> "unknown", rowInStore |-> "unknown",
                           keyOnFile |-> FALSE],
                 pre |-> [keyOnFile |-> IsSome(getFalconPeerKey(dbPeers[u], data.from)),
                          inMemory |-> IsSome(mem[u].aesKeys[data.from]),
                          inStore |-> IsSome(PeersFirstByPair(dbPeers[u], u, data.from)),
                          activePeer |-> ap]]
       IN tasks' = [tasks EXCEPT ![u] =
                        Append(@, IF IsSome(key) THEN DecryptEntry(u, t) ELSE t)]
    /\ hist' = [hist EXCEPT !.taken[u] = @ + 1]
    /\ UNCHANGED <<dbIdentity, dbPeers, dbMessages, mem, ui, directory, rnd, used, scn>>

\* key = await crypto.getFalconPublicKey(activePeer) and setFalconPeerKey;
\* no key (also: no active peer, Dexie rejects the null key and
\* getFalconPublicKey returns null): the handler returns.
ChatLookup(u, i) ==
    /\ At(u, i, "chat", "lookup")
    /\ LET t == tasks[u][i]
           key == IF IsSome(t.ap) THEN getFalconPeerKey(dbPeers[u], Val(t.ap)) ELSE None
       IN /\ ui' = IF IsSome(t.ap)
                   THEN [ui EXCEPT ![u].falconPeerKey[Val(t.ap)] = key]
                   ELSE ui
          /\ IF IsSome(key)
             THEN /\ tasks' = [tasks EXCEPT ![u][i] = DecryptEntry(u, t)]
                  /\ UNCHANGED hist
             ELSE EndChat(u, i, t, "NoKey")
    /\ UNCHANGED <<dbIdentity, dbPeers, dbMessages, mem, inbox, directory, rnd, used, scn>>

\* A decryptAES that, finding no session, waits for one: the handler stays
\* where it is and looks again later.
ChatRehydrateWaiting(u, i) ==
    /\ At(u, i, "chat", "rehydrate")
    /\ LET ss == IF IsSome(mem[u].userId)
                 THEN deriveStoredSharedKey(dbPeers[u], Val(mem[u].userId),
                                            tasks[u][i].data.from, Passphrase)
                 ELSE [st |-> "null"]
           t == [tasks[u][i] EXCEPT !.look.rowInStore =
                    IF IsSome(PeersFirstByPair(dbPeers[u], u, tasks[u][i].data.from))
                    THEN "yes" ELSE "no"]
       IN IF ss.st = "ok"
          THEN /\ mem' = [mem EXCEPT ![u].aesKeys[t.data.from] = Some(ImportRawKey(ss.v))]
               /\ tasks' = [tasks EXCEPT ![u][i] =
                        [t EXCEPT !.pc = "decrypted", !.key = Some(ImportRawKey(ss.v))]]
               /\ UNCHANGED hist
          ELSE /\ tasks' = [tasks EXCEPT ![u][i] = t]
               /\ UNCHANGED <<mem, hist>>
    /\ UNCHANGED <<dbIdentity, dbPeers, dbMessages, ui, inbox, directory, rnd, used, scn>>

\* decryptAES without a key in state: deriveStoredSharedKey, importKey (which
\* throws on a null secret), state.aesKeys set, crypto.subtle.decrypt called.
ChatRehydrate(u, i) ==
    /\ At(u, i, "chat", "rehydrate")
    /\ LET ss == IF IsSome(mem[u].userId)
                 THEN deriveStoredSharedKey(dbPeers[u], Val(mem[u].userId),
                                            tasks[u][i].data.from, Passphrase)
                 ELSE [st |-> "null"]
           t == [tasks[u][i] EXCEPT !.look.rowInStore =
                    IF IsSome(PeersFirstByPair(dbPeers[u], u, tasks[u][i].data.from))
                    THEN "yes" ELSE "no"]
       IN IF ss.st = "ok"
          THEN /\ mem' = [mem EXCEPT ![u].aesKeys[t.data.from] = Some(ImportRawKey(ss.v))]
               /\ tasks' = [tasks EXCEPT ![u][i] =
                        [t EXCEPT !.pc = "decrypted", !.key = Some(ImportRawKey(ss.v))]]
               /\ UNCHANGED hist
          ELSE /\ EndChat(u, i, t,
                          IF ss.st = "null" THEN "SessionMissing" ELSE "DecryptFailed")
               /\ UNCHANGED mem
    /\ UNCHANGED <<dbIdentity, dbPeers, dbMessages, ui, inbox, directory, rnd, used, scn>>

\* decryptAES: the decrypt resolves or rejects; on success storeMessage
\* persists the text as "incoming" under the session key now in state.
ChatDecrypted(u, i) ==
    /\ At(u, i, "chat", "decrypted")
    /\ LET t == tasks[u][i]
           from == t.data.from
       IN IF AesGcmOpens(Val(t.key), t.data.payload.iv, t.data.payload.ciphertext)
          THEN \E now \in NowChoices(dbMessages[u]) :
               LET text == TextDecode(AesGcmPlain(t.data.payload.ciphertext)) IN
               /\ dbMessages' = [dbMessages EXCEPT ![u] = Append(@,
                        storeMessage(Val(mem[u].userId), from, "incoming", text,
                                     Val(mem[u].aesKeys[from]), Draw(u, 1), now))]
               /\ rnd' = [rnd EXCEPT ![u] = @ + 1]
               /\ tasks' = [tasks EXCEPT ![u][i].pc = "verify",
                        ![u][i].text = text,
                        ![u][i].persisted = TRUE,
                        ![u][i].storedAs = Len(dbMessages[u]) + 1]
               /\ UNCHANGED hist
          ELSE /\ EndChat(u, i, t, "DecryptFailed")
               /\ UNCHANGED <<dbMessages, rnd>>
    /\ UNCHANGED <<dbIdentity, dbPeers, mem, ui, inbox, directory, used, scn>>

\* verifyMessage(JSON.stringify(data.payload), sig, falconPeerKey[data.from])
\* with the cache of the handler's render; a missing key makes
\* verifyDetached throw or return false, and either way, as for a bad
\* signature, nothing is displayed.  A good signature: setMessages.
verifyMessage(payload, sig, pk) ==
    IsSome(pk) /\ VerifyDetached(sig, payload, Val(pk))

ChatVerify(u, i) ==
    /\ At(u, i, "chat", "verify")
    /\ LET t == tasks[u][i] IN
       IF verifyMessage(t.data.payload, t.data.signature, t.cacheFrom)
       THEN /\ ui' = [ui EXCEPT ![u].messages[t.data.from] =
                        Append(@, [from |-> t.data.from, text |-> t.text])]
            /\ EndChat(u, i, [t EXCEPT !.shownAs = Len(ui[u].messages[t.data.from]) + 1],
                       "Accepted")
       ELSE /\ EndChat(u, i, t, "BadSignature")
            /\ UNCHANGED ui
    /\ UNCHANGED <<dbIdentity, dbPeers, dbMessages, mem, inbox, directory, rnd, used, scn>>

----------------------------------------------------------------------------
\* The environment: the user's other clicks and the untrusted relay.

\* A click on a conversation in "Recent Chats" (lines 379-392).
OpenChat(u, p) ==
    /\ scn.opens
    /\ Ready(u)
    /\ ui[u].messages[p] # <<>>
    /\ ui[u].activePeer # Some(p)
    /\ ui' = [ui EXCEPT ![u].activePeer = Some(p)]
    /\ tasks' = [tasks EXCEPT ![u] = @ \o EffectTasks(ui[u], p)]
    /\ UNCHANGED <<dbIdentity, dbPeers, dbMessages, mem, inbox, directory,
                   rnd, used, hist, scn>>

\* The relay flips a byte of the signature of a chat message in transit.
RelayFlipSignature(u, k) ==
    /\ used.tamper < scn.budget.tamper
    /\ k \in 1..Len(inbox[u])
    /\ inbox[u][k].type = "chat"
    /\ inbox[u][k].signature.intact
    /\ inbox' = [inbox EXCEPT ![u][k].signature.intact = FALSE]
    /\ used' = [used EXCEPT !.tamper = @ + 1]
    /\ UNCHANGED <<dbIdentity, dbPeers, dbMessages, mem, ui, tasks, directory,
                   rnd, hist, scn>>

\* The relay flips a byte of the ciphertext of a chat message in transit:
\* the AES-GCM tag no longer verifies.
RelayFlipCiphertext(u, k) ==
    /\ used.tamper < scn.budget.tamper
    /\ k \in 1..Len(inbox[u])
    /\ inbox[u][k].type = "chat"
    /\ inbox[u][k].payload.ciphertext[Len(inbox[u][k].payload.ciphertext)] = 1
    /\ inbox' = [inbox EXCEPT ![u][k].payload.ciphertext =
                    [@ EXCEPT ![Len(@)] = 0]]
    /\ used' = [used EXCEPT !.tamper = @ + 1]
    /\ UNCHANGED <<dbIdentity, dbPeers, dbMessages, mem, ui, tasks, directory,
                   rnd, hist, scn>>

\* The relay replaces the IV of a chat message in transit.
RelayFlipIv(u, k) ==
    /\ used.tamper < scn.budget.tamper
    /\ k \in 1..Len(inbox[u])
    /\ inbox[u][k].type = "chat"
    /\ inbox[u][k].payload.iv # <<0, 0>>
    /\ inbox' = [inbox EXCEPT ![u][k].payload.iv = <<0, 0>>]
    /\ used' = [used EXCEPT !.tamper = @ + 1]
    /\ UNCHANGED <<dbIdentity, dbPeers, dbMessages, mem, ui, tasks, directory,
                   rnd, hist, scn>>

----------------------------------------------------------------------------
\* The specifications: one scenario each, with the steps that occur in it.

\* Positions in a device's list of running handlers.
TaskSlots == 1..(MaxTasks + 3)

NoBudget == [u \in Users |-> 0]

\* A fresh page generating and publishing its keys.
InitKeysFresh(u, i) ==
    \/ InitKeysGet(u, i)
    \/ InitKeysGenKyber(u, i)
    \/ InitKeysGenFalcon(u, i)
    \/ InitKeysStore(u, i)

\* A reloaded page loading its keys and its history.
InitKeysReload(u, i) ==
    \/ InitKeysLoad(u, i)
    \/ InitKeysRestore(u, i)

\* One handshake: request, accept, shared_secret.
HandshakeSteps(u, i) ==
    \/ EffectLookup(u, i)
    \/ FalconKeyRead(u, i)
    \/ FalconKeyWrite(u, i)
    \/ SendChatRequestExists(u, i)
    \/ HandshakeImport(u, i)
    \/ AcceptAddPeer(u, i)
    \/ AcceptFinish(u, i)
    \/ DecapAddPeer(u, i)

HandshakeClicks(u) ==
    \/ \E p \in Users \ {u} : SendChatRequestStart(u, p)
    \/ HandleChatRequest(u)
    \/ \E p \in Users \ {u} : AcceptStart(u, p)
    \/ HandleSharedSecret(u)

\* A text sent with the session key in state, received and handled.
ChatSteps(u, i) ==
    \/ SendEmit(u, i)
    \/ SendStore(u, i)
    \/ ChatLookup(u, i)
    \/ ChatDecrypted(u, i)
    \/ ChatVerify(u, i)

ChatClicks(u) ==
    \/ \E text \in Texts : HandleSendStart(u, text)
    \/ HandleChat(u)

\* Alice asks Bob for a chat, Bob accepts, Alice sends texts; Bob may
\* reload the page, pick the conversation again, and the relay may alter a
\* signature.
ScenarioPair ==
    [devices |-> {"alice", "bob"}, gate |-> TRUE, dirFail |-> FALSE, ties |-> FALSE,
     opens |-> TRUE, maxTasks |-> MaxTasks,
     requests |-> {[from |-> "alice", to |-> "bob", after |-> {}]},
     budget |-> [req |-> [NoBudget EXCEPT !["alice"] = 1],
                 accept |-> [NoBudget EXCEPT !["bob"] = 1],
                 send |-> [NoBudget EXCEPT !["alice"] = MaxSends],
                 restart |-> [NoBudget EXCEPT !["bob"] = MaxRestarts],
                 wipe |-> NoBudget,
                 tamper |-> MaxTamper]]

Init == InitWith(ScenarioPair)

Next ==
    \E u \in Users :
        \/ \E i \in TaskSlots : InitKeysFresh(u, i)
        \/ \E i \in TaskSlots : InitKeysReload(u, i)
        \/ \E i \in TaskSlots : HandshakeSteps(u, i)
        \/ \E i \in TaskSlots : ChatSteps(u, i)
        \/ \E i \in TaskSlots : ChatRehydrate(u, i)
        \/ HandshakeClicks(u)
        \/ ChatClicks(u)
        \/ Restart(u)
        \/ \E p \in Users \ {u} : OpenChat(u, p)
        \/ \E k \in 1..MaxSends : RelayFlipSignature(u, k)

Spec == Init /\ [][Next]_vars

\* Alice asks Bob twice before the first answer is in, Bob accepts twice;
\* Alice may reload the page and sends a text.
ScenarioRehandshake ==
    [devices |-> {"alice", "bob"}, gate |-> TRUE, dirFail |-> FALSE, ties |-> FALSE,
     opens |-> FALSE, maxTasks |-> 1,
     requests |-> {[from |-> "alice", to |-> "bob", after |-> {}]},
     budget |-> [req |-> [NoBudget EXCEPT !["alice"] = MaxRequests],
                 accept |-> [NoBudget EXCEPT !["bob"] = MaxAccepts],
                 send |-> [NoBudget EXCEPT !["alice"] = 1],
                 restart |-> [NoBudget EXCEPT !["alice"] = MaxRestarts],
                 wipe |-> NoBudget,
                 tamper |-> 0]]

InitRehandshake == InitWith(ScenarioRehandshake)

NextRehandshake ==
    \E u \in Users :
        \/ \E i \in TaskSlots : InitKeysFresh(u, i)
        \/ \E i \in TaskSlots : InitKeysReload(u, i)
        \/ \E i \in TaskSlots : HandshakeSteps(u, i)
        \/ \E i \in TaskSlots : ChatSteps(u, i)
        \/ \E i \in TaskSlots : SendRehydrate(u, i)
        \/ HandshakeClicks(u)
        \/ ChatClicks(u)
        \/ Restart(u)

SpecRehandshake == InitRehandshake /\ [][NextRehandshake]_vars

\* Three devices: Alice asks Bob and, once she has her session with him,
\* Bob asks Carol; Bob and Carol accept;
\* Alice and Carol each send Bob a text.
ScenarioThree ==
    [devices |-> {"alice", "bob", "carol"}, gate |-> TRUE, dirFail |-> FALSE,
     ties |-> FALSE, opens |-> FALSE, maxTasks |-> MaxTasks,
     requests |-> {[from |-> "alice", to |-> "bob", after |-> {}],
                   [from |-> "bob", to |-> "carol", after |-> {<<"alice", "bob">>}]},
     budget |-> [req |-> [NoBudget EXCEPT !["alice"] = 1, !["bob"] = 1],
                 accept |-> [NoBudget EXCEPT !["bob"] = 1, !["carol"] = 1],
                 send |-> [NoBudget EXCEPT !["alice"] = 1, !["carol"] = 1],
                 restart |-> NoBudget,
                 wipe |-> NoBudget,
                 tamper |-> 0]]

InitThree == InitWith(ScenarioThree)

NextThree ==
    \E u \in Users :
        \/ \E i \in TaskSlots : InitKeysFresh(u, i)
        \/ \E i \in TaskSlots : HandshakeSteps(u, i)
        \/ \E i \in TaskSlots : ChatSteps(u, i)
        \/ \E i \in TaskSlots : ChatRehydrate(u, i)
        \/ HandshakeClicks(u)
        \/ ChatClicks(u)

SpecThree == InitThree /\ [][NextThree]_vars

\* Nothing waits for initKeys: Alice, whose keys are in the directory,
\* clears her site data and generates keys again while Bob asks her for a
\* chat and she accepts.
ScenarioEarly ==
    [devices |-> {"alice", "bob"}, gate |-> FALSE, dirFail |-> FALSE, ties |-> FALSE,
     opens |-> FALSE, maxTasks |-> MaxTasks,
     requests |-> {[from |-> "bob", to |-> "alice", after |-> {}]},
     budget |-> [req |-> [NoBudget EXCEPT !["bob"] = 1],
                 accept |-> [NoBudget EXCEPT !["alice"] = 1],
                 send |-> NoBudget,
                 restart |-> NoBudget,
                 wipe |-> [NoBudget EXCEPT !["alice"] = MaxWipes],
                 tamper |-> 0]]

InitEarly == InitWith(ScenarioEarly)

NextEarly ==
    \E u \in Users :
        \/ \E i \in TaskSlots : InitKeysFresh(u, i)
        \/ \E i \in TaskSlots : HandshakeSteps(u, i)
        \/ HandshakeClicks(u)
        \/ ClearSiteData(u)

SpecEarly == InitEarly /\ [][NextEarly]_vars

\* The directory is unreliable: any fetch or publish may fail.  Alice asks
\* Bob, Bob accepts, Alice sends a text.
ScenarioFlaky ==
    [devices |-> {"alice", "bob"}, gate |-> TRUE, dirFail |-> TRUE, ties |-> FALSE,
     opens |-> FALSE, maxTasks |-> 1,
     requests |-> {[from |-> "alice", to |-> "bob", after |-> {}]},
     budget |-> [req |-> [NoBudget EXCEPT !["alice"] = 1],
                 accept |-> [NoBudget EXCEPT !["bob"] = MaxAccepts],
                 send |-> [NoBudget EXCEPT !["alice"] = 1],
                 restart |-> NoBudget,
                 wipe |-> NoBudget,
                 tamper |-> 0]]

InitFlaky == InitWith(ScenarioFlaky)

NextFlaky ==
    \E u \in Users :
        \/ \E i \in TaskSlots : InitKeysFresh(u, i)
        \/ \E i \in TaskSlots : HandshakeSteps(u, i)
        \/ \E i \in TaskSlots : ChatSteps(u, i)
        \/ HandshakeClicks(u)
        \/ ChatClicks(u)

SpecFlaky == InitFlaky /\ [][NextFlaky]_vars

\* Alice asks Bob for a chat, Bob accepts, Alice sends texts, and the relay
\* may alter the ciphertext, the IV or the signature of one of them.
ScenarioTamper ==
    [devices |-> {"alice", "bob"}, gate |-> TRUE, dirFail |-> FALSE, ties |-> FALSE,
     opens |-> FALSE, maxTasks |-> MaxTasks,
     requests |-> {[from |-> "alice", to |-> "bob", after |-> {}]},
     budget |-> [req |-> [NoBudget EXCEPT !["alice"] = 1],
                 accept |-> [NoBudget EXCEPT !["bob"] = 1],
                 send |-> [NoBudget EXCEPT !["alice"] = MaxSends],
                 restart |-> NoBudget,
                 wipe |-> NoBudget,
                 tamper |-> MaxTamper]]

InitTamper == InitWith(ScenarioTamper)

NextTamper ==
    \E u \in Users :
        \/ \E i \in TaskSlots : InitKeysFresh(u, i)
        \/ \E i \in TaskSlots : HandshakeSteps(u, i)
        \/ \E i \in TaskSlots : ChatSteps(u, i)
        \/ HandshakeClicks(u)
        \/ ChatClicks(u)
        \/ \E k \in 1..MaxSends :
                \/ RelayFlipCiphertext(u, k)
                \/ RelayFlipIv(u, k)
                \/ RelayFlipSignature(u, k)

SpecTamper == InitTamper /\ [][NextTamper]_vars

\* Alice asks Bob once; Bob clicks Accept, and may click it again while the
\* first acceptChatRequest is still running and the request is in his list.
ScenarioDoubleAccept ==
    [devices |-> {"alice", "bob"}, gate |-> TRUE, dirFail |-> FALSE, ties |-> FALSE,
     opens |-> FALSE, maxTasks |-> MaxTasks,
     requests |-> {[from |-> "alice", to |-> "bob", after |-> {}]},
     budget |-> [req |-> [NoBudget EXCEPT !["alice"] = 1],
                 accept |-> [NoBudget EXCEPT !["bob"] = MaxAccepts],
                 send |-> NoBudget,
                 restart |-> NoBudget,
                 wipe |-> NoBudget,
                 tamper |-> 0]]

InitDoubleAccept == InitWith(ScenarioDoubleAccept)

NextDoubleAccept ==
    \E u \in Users :
        \/ \E i \in TaskSlots : InitKeysFresh(u, i)
        \/ \E i \in TaskSlots : HandshakeSteps(u, i)
        \/ HandshakeClicks(u)

SpecDoubleAccept == InitDoubleAccept /\ [][NextDoubleAccept]_vars

\* The directory is unreliable while the devices create their identities,
\* and the pages are reloaded afterwards.
ScenarioRepublish ==
    [devices |-> {"alice", "bob"}, gate |-> TRUE, dirFail |-> TRUE, ties |-> FALSE,
     opens |-> FALSE, maxTasks |-> 1,
     requests |-> {},
     budget |-> [req |-> NoBudget,
                 accept |-> NoBudget,
                 send |-> NoBudget,
                 restart |-> [NoBudget EXCEPT !["alice"] = MaxReloads, !["bob"] = MaxReloads],
                 wipe |-> NoBudget,
                 tamper |-> 0]]

InitRepublish == InitWith(ScenarioRepublish)

NextRepublish ==
    \E u \in Users :
        \/ \E i \in TaskSlots : InitKeysFresh(u, i)
        \/ \E i \in TaskSlots : InitKeysReload(u, i)
        \/ Restart(u)

SpecRepublish == InitRepublish /\ [][NextRepublish]_vars

\* The directory is unreliable.  Alice asks Bob, Bob accepts, and once Bob
\* holds a session with Alice he types her name and asks her himself.
ScenarioRequestBack ==
    [devices |-> {"alice", "bob"}, gate |-> TRUE, dirFail |-> TRUE, ties |-> FALSE,
     opens |-> FALSE, maxTasks |-> 1,
     requests |-> {[from |-> "alice", to |-> "bob", after |-> {}],
                   [from |-> "bob", to |-> "alice", after |-> {<<"bob", "alice">>}]},
     budget |-> [req |-> [NoBudget EXCEPT !["alice"] = MaxRequests, !["bob"] = 1],
                 accept |-> [NoBudget EXCEPT !["bob"] = 1],
                 send |-> NoBudget,
                 restart |-> NoBudget,
                 wipe |-> NoBudget,
                 tamper |-> 0]]

InitRequestBack == InitWith(ScenarioRequestBack)

NextRequestBack ==
    \E u \in Users :
        \/ \E i \in TaskSlots : InitKeysFresh(u, i)
        \/ \E i \in TaskSlots : HandshakeSteps(u, i)
        \/ HandshakeClicks(u)

SpecRequestBack == InitRequestBack /\ [][NextRequestBack]_vars

----------------------------------------------------------------------------
\* secureStorage.js called directly: the exported functions applied to the
\* stores of one browser, with user ids, passphrases and keys of every kind.

\* mutating calls made in a run of the storage functions
MaxCalls == 3
\* calls made in a run of storeFalconPeerKey with keys of every kind
MaxKeyCalls == 2
\* calls that write to the peers store in a run on the signature keys of
\* two peers
MaxDirectoryCalls == 3

\* The browser whose stores are used.
Local == "alice"

Passphrases == {Passphrase, "another-passphrase"}

\* A getStoredPublicKeys that returns the two keys in each other's place.
getStoredPublicKeysSwapped(table, userId) ==
    LET got == IdentityGet(table, userId) IN
    IF ~IsSome(got) THEN None
    ELSE Some([kyberPk |-> hexToArrayBuffer(Val(got).falconPk),
               falconPk |-> hexToArrayBuffer(Val(got).kyberPk)])

\* getStoredPublicKeys: null, or the two public keys as bytes.
getStoredPublicKeys(table, userId) ==
    LET got == IdentityGet(table, userId) IN
    IF ~IsSome(got) THEN None
    ELSE Some([kyberPk |-> hexToArrayBuffer(Val(got).kyberPk),
               falconPk |-> hexToArrayBuffer(Val(got).falconPk)])

\* storeFalconPeerKey as one call: "throw" with the table as it was for a
\* missing or invalid key, else "ok" with the first row of the peer
\* updated or a new row added.  falconPk is None (null) or Some(value).
storeFalconPeerKey(table, peerId, falconPk) ==
    IF ~IsSome(falconPk) \/ Val(falconPk) = JsString(<<>>)
    THEN [st |-> "throw", table |-> table]
    ELSE IF ~validateFalconPublicKey(Val(falconPk))
    THEN [st |-> "throw", table |-> table]
    ELSE LET hex == FalconKeyHex(Val(falconPk))
             existing == PeersFirstIdByPeer(table, peerId)
         IN [st |-> "ok",
             table |-> IF existing > 0 THEN PeersUpdateFalcon(table, existing, hex)
                       ELSE PeersAdd(table, FalconOnlyRow(peerId, hex))]

\* Key material handed to storeFalconPeerKey: n bytes, or n characters.
KeyBytes(n) == [i \in 1..n |-> 3]
HexChars(n) == [i \in 1..n |-> 10]

FalconKeyInputs ==
    {None, Some(JsString(<<>>)), Some([t |-> "object", v |-> <<>>])}
    \cup {Some(JsUint8Array(KeyBytes(n))) :
            n \in {0, FalconKeyMinBytes - 1, FalconKeyMinBytes, FalconKeyMinBytes + 1,
                   FalconKeyMaxBytes, FalconKeyMaxBytes + 1}}
    \cup {Some(JsArray(KeyBytes(n))) : n \in {FalconKeyMinBytes - 1, FalconKeyMinBytes}}
    \cup {Some(JsArrayBuffer(KeyBytes(n))) : n \in {FalconKeyMinBytes - 1, FalconKeyMinBytes}}
    \cup {Some(JsString(HexChars(n))) :
            n \in {2 * FalconKeyMinBytes - 2, 2 * FalconKeyMinBytes - 1,
                   2 * FalconKeyMinBytes, 2 * FalconKeyMinBytes + 1,
                   2 * FalconKeyMaxBytes, 2 * FalconKeyMaxBytes + 1,
                   2 * FalconKeyMaxBytes + 2}}
    \cup {Some(JsString(<<0, 16>> \o HexChars(n))) :
            n \in {2 * FalconKeyMinBytes - 2, 2 * FalconKeyMinBytes,
                   2 * FalconKeyMinBytes + 1}}
    \cup {Some(JsString(HexChars(2 * FalconKeyMinBytes - 1) \o <<17>>))}

UsedStorageInit == [calls |-> 0]

HistStorageInit ==
    [call |-> None,
     idWritten |-> [u \in Users |-> None],
     idStores |-> [u \in Users |-> 0],
     peerWritten |-> [p \in Users |-> None],
     keyWritten |-> [p \in Users |-> FALSE],
     keyStored |-> [p \in Users |-> None]]

\* Empty stores; the run makes at most maxCalls mutating calls.
InitStorageWith(maxCalls) ==
    /\ scn = [devices |-> {Local}, gate |-> TRUE, dirFail |-> FALSE, ties |-> FALSE,
              opens |-> FALSE, maxTasks |-> 0, requests |-> {}, maxCalls |-> maxCalls]
    /\ dbIdentity = [u \in Users |-> <<>>]
    /\ dbPeers = [u \in Users |-> <<>>]
    /\ dbMessages = [u \in Users |-> <<>>]
    /\ mem = [u \in Users |-> MemInit]
    /\ ui = [u \in Users |-> UiInit]
    /\ tasks = [u \in Users |-> <<>>]
    /\ inbox = [u \in Users |-> <<>>]
    /\ directory = [u \in Users |-> None]
    /\ rnd = [u \in Users |-> 0]
    /\ used = UsedStorageInit
    /\ hist = HistStorageInit

InitStorage == InitStorageWith(MaxCalls)

\* storeIdentityKeys(userId, passphrase, kyberKeys, falconKeys) with two
\* fresh key pairs.
CallStoreIdentityKeys(userId, passphrase) ==
    /\ used.calls < scn.maxCalls
    /\ LET kyberKeys == [pk |-> KemPk(Draw(Local, 1)), sk |-> KemSk(Draw(Local, 1))]
           falconKeys == [pk |-> FalconPk(Draw(Local, 2)), sk |-> FalconSk(Draw(Local, 2))]
           row == storeIdentityKeys(userId, passphrase, kyberKeys, falconKeys,
                                    Draw(Local, 3), Draw(Local, 4), Draw(Local, 5))
       IN /\ dbIdentity' = [dbIdentity EXCEPT ![Local] = IdentityPut(@, row)]
          /\ hist' = [hist EXCEPT
                !.call = Some([op |-> "storeIdentityKeys", userId |-> userId,
                               passphrase |-> passphrase]),
                !.idWritten[userId] = Some([passphrase |-> passphrase,
                                            kyber |-> kyberKeys, falcon |-> falconKeys]),
                !.idStores[userId] = @ + 1]
    /\ rnd' = [rnd EXCEPT ![Local] = @ + 5]
    /\ used' = [used EXCEPT !.calls = @ + 1]
    /\ UNCHANGED <<dbPeers, dbMessages, mem, ui, tasks, inbox, directory, scn>>

\* loadIdentityKeys(userId, passphrase), and loadKeys' assignments to a
\* fresh state when handed its result.
CallLoadIdentityKeys(userId, passphrase) ==
    /\ LET result == loadIdentityKeys(dbIdentity[Local], userId, passphrase) IN
       hist' = [hist EXCEPT !.call =
            Some([op |-> "loadIdentityKeys", userId |-> userId, passphrase |-> passphrase,
                  result |-> result, before |-> dbIdentity[Local],
                  state |-> loadKeys(MemInit, userId, result)])]
    /\ UNCHANGED <<dbIdentity, dbPeers, dbMessages, mem, ui, tasks, inbox, directory,
                   rnd, used, scn>>

\* getStoredPublicKeys(userId)
CallGetStoredPublicKeys(userId) ==
    /\ hist' = [hist EXCEPT !.call =
            Some([op |-> "getStoredPublicKeys", userId |-> userId,
                  result |-> getStoredPublicKeys(dbIdentity[Local], userId)])]
    /\ UNCHANGED <<dbIdentity, dbPeers, dbMessages, mem, ui, tasks, inbox, directory,
                   rnd, used, scn>>

\* addPeer(userId, peerId, peerKyberPk, sharedAESKey, passphrase) with a
\* fresh shared secret.
CallAddPeer(peerId, passphrase) ==
    /\ used.calls < scn.maxCalls
    /\ LET peerPk == KemPk(<<UIdx(peerId), 0>>)
           ss == EncapSs(peerPk, Draw(Local, 1))
           row == addPeer(Local, peerId, peerPk, ss, passphrase, None,
                          Draw(Local, 2), Draw(Local, 3))
       IN /\ dbPeers' = [dbPeers EXCEPT ![Local] = PeersAdd(@, row)]
          /\ hist' = [hist EXCEPT
                !.call = Some([op |-> "addPeer", peerId |-> peerId,
                               passphrase |-> passphrase]),
                !.peerWritten[peerId] =
                    IF IsSome(@) THEN @
                    ELSE Some([passphrase |-> passphrase, ss |-> ss])]
    /\ rnd' = [rnd EXCEPT ![Local] = @ + 3]
    /\ used' = [used EXCEPT !.calls = @ + 1]
    /\ UNCHANGED <<dbIdentity, dbMessages, mem, ui, tasks, inbox, directory, scn>>

\* deriveStoredSharedKey(userId, peerId, passphrase)
CallDeriveStoredSharedKey(peerId, passphrase) ==
    /\ hist' = [hist EXCEPT !.call =
            Some([op |-> "deriveStoredSharedKey", peerId |-> peerId,
                  passphrase |-> passphrase,
                  result |-> deriveStoredSharedKey(dbPeers[Local], Local, peerId, passphrase)])]
    /\ UNCHANGED <<dbIdentity, dbPeers, dbMessages, mem, ui, tasks, inbox, directory,
                   rnd, used, scn>>

\* storeFalconPeerKey(peerId, falconPk)
CallStoreFalconPeerKey(peerId, falconPk) ==
    /\ used.calls < scn.maxCalls
    /\ LET result == storeFalconPeerKey(dbPeers[Local], peerId, falconPk) IN
        /\ dbPeers' = [dbPeers EXCEPT ![Local] = result.table]
        /\ hist' = [hist EXCEPT
                !.call = Some([op |-> "storeFalconPeerKey", peerId |-> peerId,
                               falconPk |-> falconPk, result |-> result.st,
                               before |-> dbPeers[Local]]),
                !.keyWritten[peerId] = @ \/ result.st = "ok",
                !.keyStored[peerId] = IF result.st = "ok" THEN falconPk ELSE @]
    /\ used' = [used EXCEPT !.calls = @ + 1]
    /\ UNCHANGED <<dbIdentity, dbMessages, mem, ui, tasks, inbox, directory, rnd, scn>>

\* getFalconPeerKey(peerId)
CallGetFalconPeerKey(peerId) ==
    /\ hist' = [hist EXCEPT !.call =
            Some([op |-> "getFalconPeerKey", peerId |-> peerId,
                  result |-> getFalconPeerKey(dbPeers[Local], peerId)])]
    /\ UNCHANGED <<dbIdentity, dbPeers, dbMessages, mem, ui, tasks, inbox, directory,
                   rnd, used, scn>>

\* Valid keys of the shortest length, as bytes and as a hex string.
SmallKeyInputs ==
    {Some(JsUint8Array(KeyBytes(FalconKeyMinBytes))),
     Some(JsString(HexChars(2 * FalconKeyMinBytes)))}

\* Identities of two users under two passphrases, a session with Bob, and
\* Bob's signature key; every lookup also for a user or peer without record.
NextStorage ==
    \/ \E userId \in {"alice", "bob"} : \E passphrase \in Passphrases :
            \/ CallStoreIdentityKeys(userId, passphrase)
            \/ CallLoadIdentityKeys(userId, passphrase)
    \/ \E userId \in {"alice", "bob"} : CallGetStoredPublicKeys(userId)
    \/ \E passphrase \in Passphrases : CallAddPeer("bob", passphrase)
    \/ \E peerId \in {"bob", "carol"} : \E passphrase \in Passphrases :
            CallDeriveStoredSharedKey(peerId, passphrase)
    \/ \E falconPk \in SmallKeyInputs : CallStoreFalconPeerKey("bob", falconPk)
    \/ \E peerId \in {"bob", "carol"} : CallGetFalconPeerKey(peerId)

SpecStorage == InitStorage /\ [][NextStorage]_vars

\* Keys of every kind and length handed to storeFalconPeerKey for one peer,
\* with or without a session row of that peer in the store.
InitFalconKeys == InitStorageWith(MaxKeyCalls)

NextFalconKeys ==
    \/ CallAddPeer("bob", Passphrase)
    \/ \E falconPk \in FalconKeyInputs : CallStoreFalconPeerKey("bob", falconPk)
    \/ CallGetFalconPeerKey("bob")

SpecFalconKeys == InitFalconKeys /\ [][NextFalconKeys]_vars

----------------------------------------------------------------------------
\* secureStorage.js storeMessage / loadMessages and cryptomanager.js
\* loadPeerMessages, called directly on one browser profile.

\* storeMessage calls in a run on one conversation
MaxStores == 3
\* storeMessage calls in a run on two conversations
MaxRestoreStores == 3
\* the values Date.now() takes in a run (the wall clock may be set back)
MaxClock == 2

\* "hi", "yo"
HistoryTexts == {<<104, 105>>, <<121, 111>>}

\* The keys a caller may hold for a peer: the session key of the first
\* addPeer for that peer, if any, and a key of no session.
StrayKey == ImportRawKey(<<5, 0, 0, 0, 0>>)
KeyKinds == {"session", "stray"}
HoldsKey(peerId, kind) == kind = "session" => IsSome(hist.peerWritten[peerId])
CallerKey(peerId, kind) ==
    IF kind = "session" THEN ImportRawKey(Val(hist.peerWritten[peerId]).ss) ELSE StrayKey

HistHistoryInit ==
    [call |-> None,
     peerWritten |-> [p \in Users |-> None],
     stored |-> <<>>]

\* Empty stores; the run makes at most maxCalls storeMessage calls.
InitHistoryWith(maxCalls) ==
    /\ scn = [devices |-> {Local}, gate |-> TRUE, dirFail |-> FALSE, ties |-> TRUE,
              opens |-> FALSE, maxTasks |-> 0, requests |-> {},
              maxCalls |-> maxCalls]
    /\ dbIdentity = [u \in Users |-> <<>>]
    /\ dbPeers = [u \in Users |-> <<>>]
    /\ dbMessages = [u \in Users |-> <<>>]
    /\ mem = [u \in Users |-> MemInit]
    /\ ui = [u \in Users |-> UiInit]
    /\ tasks = [u \in Users |-> <<>>]
    /\ inbox = [u \in Users |-> <<>>]
    /\ directory = [u \in Users |-> None]
    /\ rnd = [u \in Users |-> 0]
    /\ used = UsedStorageInit
    /\ hist = HistHistoryInit

\* addPeer for a peer without row, with a fresh shared secret.
CallAddFirstPeer(peerId, passphrase) ==
    /\ ~IsSome(PeersFirstByPair(dbPeers[Local], Local, peerId))
    /\ LET peerPk == KemPk(<<UIdx(peerId), 0>>)
           ss == EncapSs(peerPk, Draw(Local, 1))
           row == addPeer(Local, peerId, peerPk, ss, passphrase, None,
                          Draw(Local, 2), Draw(Local, 3))
       IN /\ dbPeers' = [dbPeers EXCEPT ![Local] = PeersAdd(@, row)]
          /\ hist' = [hist EXCEPT
                !.call = Some([op |-> "addPeer", peerId |-> peerId,
                               passphrase |-> passphrase]),
                !.peerWritten[peerId] = Some([passphrase |-> passphrase, ss |-> ss])]
    /\ rnd' = [rnd EXCEPT ![Local] = @ + 3]
    /\ UNCHANGED <<dbIdentity, dbMessages, mem, ui, tasks, inbox, directory, used, scn>>

\* deriveStoredSharedKey(userId, peerId, passphrase)
CallDeriveSessionKey(peerId, passphrase) ==
    /\ hist' = [hist EXCEPT !.call =
            Some([op |-> "deriveStoredSharedKey", peerId |-> peerId,
                  passphrase |-> passphrase,
                  result |-> deriveStoredSharedKey(dbPeers[Local], Local, peerId, passphrase)])]
    /\ UNCHANGED <<dbIdentity, dbPeers, dbMessages, mem, ui, tasks, inbox, directory,
                   rnd, used, scn>>

\* storeMessage(userId, peerId, direction, text, aesCryptoKey) when
\* Date.now() answers now.
CallStoreMessage(peerId, direction, text, kind, now) ==
    /\ used.calls < scn.maxCalls
    /\ HoldsKey(peerId, kind)
    /\ LET key == CallerKey(peerId, kind) IN
        /\ dbMessages' = [dbMessages EXCEPT ![Local] =
                Append(@, storeMessage(Local, peerId, direction, text, key,
                                       Draw(Local, 1), now))]
        /\ hist' = [hist EXCEPT
                !.call = Some([op |-> "storeMessage", peerId |-> peerId]),
                !.stored = Append(@, [peerId |-> peerId, direction |-> direction,
                                      text |-> text, key |-> key, now |-> now])]
    /\ rnd' = [rnd EXCEPT ![Local] = @ + 1]
    /\ used' = [used EXCEPT !.calls = @ + 1]
    /\ UNCHANGED <<dbIdentity, dbPeers, mem, ui, tasks, inbox, directory, scn>>

\* storeMessage of "hi", a millisecond after the row stored last.
CallStoreLaterMessage(peerId, direction, kind) ==
    CallStoreMessage(peerId, direction, <<104, 105>>, kind, Len(dbMessages[Local]) + 1)

\* loadMessages(userId, peerId, aesCryptoKey)
CallLoadMessages(peerId, kind) ==
    /\ HoldsKey(peerId, kind)
    /\ LET key == CallerKey(peerId, kind) IN
       hist' = [hist EXCEPT !.call =
            Some([op |-> "loadMessages", peerId |-> peerId, key |-> key,
                  result |-> loadMessages(dbMessages[Local], Local, peerId, key)])]
    /\ UNCHANGED <<dbIdentity, dbPeers, dbMessages, mem, ui, tasks, inbox, directory,
                   rnd, used, scn>>

\* loadPeerMessages(userId)
CallLoadPeerMessages ==
    /\ hist' = [hist EXCEPT !.call =
            Some([op |-> "loadPeerMessages",
                  result |-> loadPeerMessages(dbPeers[Local], dbMessages[Local], Local)])]
    /\ UNCHANGED <<dbIdentity, dbPeers, dbMessages, mem, ui, tasks, inbox, directory,
                   rnd, used, scn>>

\* One conversation: a session with Bob under either passphrase, messages
\* stored under the session key or another key at any clock value, and
\* every load.
InitHistory == InitHistoryWith(MaxStores)

NextHistory ==
    \/ \E passphrase \in Passphrases :
            \/ CallAddFirstPeer("bob", passphrase)
            \/ CallDeriveSessionKey("bob", passphrase)
    \/ \E direction \in {"incoming", "outgoing"} : \E text \in HistoryTexts :
       \E kind \in KeyKinds : \E now \in 1..MaxClock :
            CallStoreMessage("bob", direction, text, kind, now)
    \/ \E kind \in KeyKinds : CallLoadMessages("bob", kind)

SpecHistory == InitHistory /\ [][NextHistory]_vars

\* Two conversations: sessions with Bob and Carol, each under either
\* passphrase, messages of both stored one millisecond apart under the
\* session key or another key, and the restore of all histories.
InitRestore == InitHistoryWith(MaxRestoreStores)

NextRestore ==
    \/ \E peerId \in {"bob", "carol"} :
            \/ \E passphrase \in Passphrases : CallAddFirstPeer(peerId, passphrase)
            \/ \E direction \in {"incoming", "outgoing"} : \E kind \in KeyKinds :
                    CallStoreLaterMessage(peerId, direction, kind)
    \/ CallLoadPeerMessages

SpecRestore == InitRestore /\ [][NextRestore]_vars

\* The falconPk argument of addPeer: absent, or a key of the peer other
\* than those handed to storeFalconPeerKey.
AddPeerKeyArgs ==
    {None, Some(JsUint8Array([i \in 1..FalconKeyMinBytes |-> 7]))}

\* addPeer(userId, peerId, peerKyberPk, sharedAESKey, passphrase, falconPk)
\* for any local user of the browser profile.
CallAddPeerFor(userId, peerId, falconPk) ==
    /\ used.calls < scn.maxCalls
    /\ LET peerPk == KemPk(<<UIdx(peerId), 0>>)
           ss == EncapSs(peerPk, Draw(Local, 1))
           row == addPeer(userId, peerId, peerPk, ss, Passphrase, falconPk,
                          Draw(Local, 2), Draw(Local, 3))
       IN /\ dbPeers' = [dbPeers EXCEPT ![Local] = PeersAdd(@, row)]
          /\ hist' = [hist EXCEPT
                !.call = Some([op |-> "addPeer", peerId |-> peerId, userId |-> userId,
                               before |-> dbPeers[Local]])]
    /\ rnd' = [rnd EXCEPT ![Local] = @ + 3]
    /\ used' = [used EXCEPT !.calls = @ + 1]
    /\ UNCHANGED <<dbIdentity, dbMessages, mem, ui, tasks, inbox, directory, scn>>

\* storeMessage into the empty messages store.
CallStoreFirstMessage(peerId) ==
    /\ dbMessages[Local] = <<>>
    /\ dbMessages' = [dbMessages EXCEPT ![Local] =
            Append(@, storeMessage(Local, peerId, "incoming", <<104, 105>>, StrayKey,
                                   Draw(Local, 1), 1))]
    /\ hist' = [hist EXCEPT !.call = Some([op |-> "storeMessage", peerId |-> peerId])]
    /\ rnd' = [rnd EXCEPT ![Local] = @ + 1]
    /\ UNCHANGED <<dbIdentity, dbPeers, mem, ui, tasks, inbox, directory, used, scn>>

\* The signature keys of two peers, stored as bytes or as hex, with
\* PeerSession rows of two local users added before and after, next to an
\* identity and a message.
InitKeyDirectory == InitStorageWith(MaxDirectoryCalls)

NextKeyDirectory ==
    \/ CallStoreIdentityKeys("alice", Passphrase)
    \/ CallStoreFirstMessage("bob")
    \/ \E userId \in {"alice", "carol"} : \E peerId \in {"bob", "carol"} :
       \E falconPk \in AddPeerKeyArgs : CallAddPeerFor(userId, peerId, falconPk)
    \/ \E peerId \in {"bob", "carol"} : \E falconPk \in SmallKeyInputs :
            CallStoreFalconPeerKey(peerId, falconPk)
    \/ \E peerId \in {"bob", "carol"} : CallGetFalconPeerKey(peerId)

SpecKeyDirectory == InitKeyDirectory /\ [][NextKeyDirectory]_vars

----------------------------------------------------------------------------
\* The properties.

\* The envelopes a device has taken from its socket: those handled to the
\* end, those cut off by a reload, and those still being handled.
ChatRecords(u) ==
    hist.handled[u] \cup
    {Handled(tasks[u][i], "Running") :
        i \in {j \in 1..Len(tasks[u]) : tasks[u][j].kind = "chat"}}

\* The signature of the envelope verifies against the signature public key
\* its sender published.
SignatureVerifies(env) ==
    /\ IsSome(GetFalconPub(directory, env.from))
    /\ VerifyDetached(env.signature, env.payload,
                      base64ToUint8(Val(GetFalconPub(directory, env.from))))

\* The texts of peer p shown in the conversation of u with p.
ShownFrom(u, p) == SelectSeq(ui[u].messages[p], LAMBDA m : m.from = p)

\* C1: an incoming chat envelope whose signature does not verify against
\* the sender's public key is dropped: no incoming record is persisted for
\* it, it is not accepted, and the conversation -- live or restored after a
\* reload -- shows no more texts of the sender than envelopes of that
\* sender with a good signature were received.
C1_BadSignatureDropped ==
    \A u \in Users :
        /\ \A h \in ChatRecords(u) :
                ~SignatureVerifies(h.env) => ~h.persisted /\ h.outcome # "Accepted"
        /\ \A p \in Users \ {u} :
                Len(ShownFrom(u, p)) <=
                    Cardinality({h \in ChatRecords(u) :
                                    h.env.from = p /\ SignatureVerifies(h.env)})

\* C2: verify-then-decrypt -- an envelope is in decryptAES (key lookup or
\* crypto.subtle.decrypt) only after verifyMessage has returned true for it.
C2_VerifyThenDecrypt ==
    \A u \in Users : \A i \in 1..Len(tasks[u]) :
        tasks[u][i].kind = "chat" /\ tasks[u][i].pc \in {"rehydrate", "decrypted"}
            => tasks[u][i].verified

\* C3: an envelope whose claimed sender has no signature public key on
\* file at the receiver -- neither when it arrives nor when the handler is
\* through with its key check -- is rejected as an unknown signer: it never
\* enters decryptAES and no incoming record is persisted for it, whichever
\* peer is active.
C3_UnknownSignerRejected ==
    \A u \in Users : \A h \in ChatRecords(u) :
        ~h.pre.keyOnFile /\ ~h.look.keyOnFile
            => /\ h.look.keyInState = "unknown"
               /\ ~h.persisted
               /\ h.outcome \in {"Running", "Interrupted", "NoKey"}

\* C4: end-to-end delivery -- once the receiver holds a session with the
\* sender (the handshake is complete) and the sender's signature key, every
\* envelope the sender emitted and the relay delivered unmodified is handled
\* to acceptance: verified, decrypted, persisted as incoming and shown.
C4_EndToEndDelivery ==
    \A u \in Users : \A h \in hist.handled[u] :
        /\ h.env \in hist.sent
        /\ h.pre.keyOnFile
        /\ h.pre.inMemory \/ h.pre.inStore
        /\ h.outcome # "Interrupted"
        => h.outcome = "Accepted" /\ h.verified /\ h.persisted

\* C9: lazy rehydration -- a correctly signed envelope from a sender for
\* whom the receiver has no session key in state but a PeerSession row and
\* a signature key in the store is handled to acceptance with the key taken
\* from the store, whichever peer is active.
C9_LazyRehydration ==
    \A u \in Users : \A h \in hist.handled[u] :
        /\ h.env \in hist.sent
        /\ ~h.pre.inMemory /\ h.pre.inStore /\ h.pre.keyOnFile
        /\ h.outcome # "Interrupted"
        => /\ h.look.keyInState = "no" /\ h.look.rowInStore = "yes"
           /\ h.outcome = "Accepted" /\ h.verified /\ h.persisted

\* C5: in one handshake whose shared_secret message arrives unmodified,
\* the secret the requester decapsulates is the secret the responder
\* encapsulated, and every session key in state is such a secret imported
\* raw as the AES-GCM key, with no derivation in between.
C5_SameSessionKey ==
    /\ \A d \in hist.decaps : \A e \in hist.encaps :
            e.by = d.peer /\ e.peer = d.by /\ e.ct = d.ct => d.ss = e.ss
    /\ \A u \in Users : \A p \in Users :
            IsSome(mem[u].aesKeys[p]) =>
                \/ \E e \in hist.encaps :
                        e.by = u /\ e.peer = p /\ Val(mem[u].aesKeys[p]) = [raw |-> e.ss]
                \/ \E d \in hist.decaps : \E e \in hist.encaps :
                        /\ d.by = u /\ d.peer = p /\ e.by = p /\ e.peer = u /\ e.ct = d.ct
                        /\ Val(mem[u].aesKeys[p]) = [raw |-> e.ss]

\* A handshake is complete on both sides and the requester, who reloaded
\* the page on the way, holds the key the responder encapsulated.
C5_Witness ==
    \E d \in hist.decaps : \E e \in hist.encaps :
        /\ e.by = d.peer /\ e.peer = d.by /\ e.ct = d.ct
        /\ used.restart[d.by] > 0
        /\ mem[d.by].aesKeys[d.peer] = Some([raw |-> e.ss])
        /\ mem[e.by].aesKeys[e.peer] = Some([raw |-> e.ss])

\* The PeerSession rows of user u with peer p in u's peers table.
SessionRows(u, p) ==
    {i \in 1..Len(dbPeers[u]) :
        /\ dbPeers[u][i].userId = Some(u)
        /\ dbPeers[u][i].peerId = p
        /\ IsSome(dbPeers[u][i].encSharedKey)}

\* C6: the peers store holds at most one PeerSession row per (userId,
\* peerId) pair; a second establishment replaces the row of the first.
C6_OneSessionPerPair ==
    \A u \in Users : \A p \in Users : Cardinality(SessionRows(u, p)) <= 1

\* C7: last handshake wins across restarts -- the session key a reloaded
\* page rehydrates with deriveStoredSharedKey is the session key it held in
\* state just before the reload.
C7_LastHandshakeWins ==
    [][\A u \in Users : \A i \in TaskSlots :
            SendRehydrate(u, i) /\ IsSome(hist.lastKeys[u][tasks[u][i].peer])
                /\ IsSome(mem'[u].aesKeys[tasks[u][i].peer])
            => mem'[u].aesKeys[tasks[u][i].peer] = hist.lastKeys[u][tasks[u][i].peer]]_vars

IsSecretKeyMaterial(b) ==
    \/ IsKemSk(b)
    \/ IsFalconSk(b)
    \/ Len(b) >= 3 /\ b[1] \in {5, 7}

IsPlaintext(b) == \E text \in Texts : b = TextEncode(text)

InTheClear(b) == IsSecretKeyMaterial(b) \/ IsPlaintext(b)

\* An AES-GCM ciphertext under a key of the given kind (8: the PBKDF2 key
\* of the passphrase, 5 or 7: a session key).
CiphertextUnder(ct, kinds) ==
    AesGcmWellFormed(ct) /\ ct[2] >= 1 /\ AesGcmKeyOf(ct)[1] \in kinds

IdentityRowSafe(row) ==
    /\ IsKemPk(hexToBuf(row.kyberPk))
    /\ IsFalconPk(hexToBuf(row.falconPk))
    /\ CiphertextUnder(hexToBuf(row.encKyberSk), {8})
    /\ CiphertextUnder(hexToBuf(row.encFalconSk), {8})
    /\ \A f \in {row.kyberIv, row.falconIv, row.salt} :
            ~InTheClear(f) /\ ~InTheClear(hexToBuf(f))

PeersRowSafe(row) ==
    /\ IsSome(row.kyberPk) => ~InTheClear(Val(row.kyberPk))
    /\ IsSome(row.encSharedKey) => CiphertextUnder(hexToBuf(Val(row.encSharedKey)), {8})
    /\ \A f \in {row.iv, row.salt, row.falconPk} :
            IsSome(f) => ~InTheClear(Val(f)) /\ ~InTheClear(hexToBuf(Val(f)))

MessageRowSafe(row) ==
    /\ CiphertextUnder(row.ciphertext, {5, 7})
    /\ ~InTheClear(row.iv)

SocketMessageSafe(msg) ==
    CASE msg.type = "chat_request" -> TRUE
      [] msg.type = "shared_secret" ->
            /\ IsKemCt(msg.ct.v)
            /\ ~InTheClear(msg.peerKyberPk.v)
      [] msg.type = "chat" ->
            /\ CiphertextUnder(msg.payload.ciphertext, {5, 7})
            /\ ~InTheClear(msg.payload.iv)
            /\ msg.signature.msg = msg.payload

DirectoryEntrySafe(entry) ==
    /\ IsKemPk(base64ToUint8(entry.kem_pub))
    /\ IsFalconPk(base64ToUint8(entry.falcon_pub))

\* C10: no row of the identity, peers or messages stores and no message to
\* the relay or the directory carries a KEM secret key, a signature secret
\* key, a shared secret or a plaintext in the clear: secrets are stored
\* only as AES-GCM ciphertexts, and only public keys, KEM ciphertexts,
\* encrypted envelopes and signatures are transmitted.
C10_NoSecretInTheClear ==
    \A u \in Users :
        /\ \A i \in 1..Len(dbIdentity[u]) : IdentityRowSafe(dbIdentity[u][i])
        /\ \A i \in 1..Len(dbPeers[u]) : PeersRowSafe(dbPeers[u][i])
        /\ \A i \in 1..Len(dbMessages[u]) : MessageRowSafe(dbMessages[u][i])
        /\ \A k \in 1..Len(inbox[u]) : SocketMessageSafe(inbox[u][k])
        /\ IsSome(directory[u]) => DirectoryEntrySafe(Val(directory[u]))

\* Every store holds rows -- three identities, the PeerSessions of two
\* handshakes, messages in both directions -- all three devices are in the
\* directory and a chat envelope of the second conversation is on its way.
C10_Witness ==
    /\ \A u \in Users : dbIdentity[u] # <<>> /\ IsSome(directory[u])
    /\ SessionRows("alice", "bob") # {} /\ SessionRows("bob", "alice") # {}
    /\ SessionRows("bob", "carol") # {} /\ SessionRows("carol", "bob") # {}
    /\ dbMessages["alice"] # <<>> /\ dbMessages["bob"] # <<>>
    /\ \E k \in 1..Len(inbox["bob"]) :
            inbox["bob"][k].type = "chat" /\ inbox["bob"][k].from = "carol"


\* The KEM shared secrets device u obtained for peer p: by encapsulating
\* against p's key or by decapsulating p's ciphertext.
SessionSecrets(u, p) ==
    {e.ss : e \in {x \in hist.encaps \cup hist.decaps : x.by = u /\ x.peer = p}}

\* C11: session establishment comes before messaging -- every chat message
\* put on the socket is encrypted under a shared secret its sender obtained
\* for the recipient, every stored message row of a conversation is
\* encrypted under a shared secret of its owner for that peer, and a
\* conversation shows texts only if such a secret exists; so with no session
\* nothing is sent, stored or shown.
C11_SessionBeforeMessaging ==
    /\ \A msg \in hist.sent :
            /\ AesGcmWellFormed(msg.payload.ciphertext)
            /\ AesGcmKeyOf(msg.payload.ciphertext) \in SessionSecrets(msg.from, msg.to)
    /\ \A u \in Users : \A i \in 1..Len(dbMessages[u]) :
            AesGcmKeyOf(dbMessages[u][i].ciphertext)
                \in SessionSecrets(dbMessages[u][i].userId, dbMessages[u][i].peerId)
    /\ \A u \in Users : \A p \in Users :
            ui[u].messages[p] # <<>> => SessionSecrets(u, p) # {}

\* Alice reloaded the page, took the session key from the store and sent a
\* text, which she stored and Bob accepted.
C11_Witness ==
    /\ used.restart["alice"] > 0
    /\ hist.lastKeys["alice"]["bob"] # None
    /\ mem["alice"].aesKeys["bob"] # None
    /\ \E msg \in hist.sent : msg.from = "alice" /\ msg.to = "bob"
    /\ \E i \in 1..Len(dbMessages["alice"]) : dbMessages["alice"][i].direction = "outgoing"
    /\ \E i \in 1..Len(dbMessages["bob"]) : dbMessages["bob"][i].direction = "incoming"
    /\ ui["bob"].messages["alice"] # <<>>


\* The identity of u is initialised: its record is in the store and the
\* keys are in state (loadKeys sets state.userId last; generateKeys has
\* written the record).
IdentityInitialised(u) ==
    /\ IsSome(IdentityGet(dbIdentity[u], u))
    /\ IsSome(mem[u].userId)
    /\ IsSome(mem[u].kyberKeys.sk) /\ IsSome(mem[u].falconKeys.sk)

\* C12: the identity is initialised before session establishment runs --
\* a device encapsulates, decapsulates or adds a PeerSession row only in a
\* state in which its identity is loaded, or generated and persisted.
C12_IdentityBeforeSession ==
    [][\A u \in Users :
            \/ \E x \in (hist'.encaps \cup hist'.decaps) \ (hist.encaps \cup hist.decaps) :
                    x.by = u
            \/ \E i \in 1..Len(dbPeers'[u]) :
                    /\ i > Len(dbPeers[u])
                    /\ IsSome(dbPeers'[u][i].encSharedKey)
            => IdentityInitialised(u)]_vars


\* A shared_secret message of u for p carrying ciphertext ct was sent: it
\* waits at p's socket, or p has taken it and decapsulated it.
SharedSecretSent(u, p, ct) ==
    \/ \E k \in 1..Len(inbox[p]) :
            /\ inbox[p][k].type = "shared_secret"
            /\ inbox[p][k].from = u
            /\ Uint8ArrayOfJson(inbox[p][k].ct) = ct
    \/ \E d \in hist.decaps : d.by = p /\ d.peer = u /\ d.ct = ct

\* The PeerSession row of an encapsulation is in the store of the
\* responder.
SessionPersisted(e) ==
    \E i \in SessionRows(e.by, e.peer) :
        AesGcmPlain(hexToBuf(Val(dbPeers[e.by][i].encSharedKey))) = e.ss

\* C13: persisting the PeerSession and transmitting the ciphertext go
\* together -- once acceptChatRequest has ended, a PeerSession row written
\* for an encapsulation means the shared_secret message with the ciphertext
\* of that encapsulation was sent to the requester.
C13_SessionWithCiphertext ==
    \A e \in hist.encaps :
        /\ SessionPersisted(e)
        /\ ~\E i \in 1..Len(tasks[e.by]) :
                tasks[e.by][i].kind = "accept" /\ tasks[e.by][i].ct = e.ct
        => SharedSecretSent(e.by, e.peer, e.ct)


\* The outgoing rows of u's conversation with p, and the chat messages u
\* put on the socket for p.
OutgoingRows(u, p) ==
    {i \in 1..Len(dbMessages[u]) :
        /\ dbMessages[u][i].userId = u
        /\ dbMessages[u][i].peerId = p
        /\ dbMessages[u][i].direction = "outgoing"}

SentTo(u, p) == {msg \in hist.sent : msg.from = u /\ msg.to = p}

\* What sendMessage emits: the text encrypted under a shared secret of the
\* sender for the recipient with the IV of the payload, signed -- the
\* signature being over exactly the payload -- with the secret key of the
\* sender's identity; no two messages of one sender share an IV.
EmittedWellFormed ==
    /\ \A msg \in hist.sent :
            /\ msg.type = "chat"
            /\ AesGcmWellFormed(msg.payload.ciphertext)
            /\ AesGcmKeyOf(msg.payload.ciphertext) \in SessionSecrets(msg.from, msg.to)
            /\ AesGcmIvOf(msg.payload.ciphertext) = msg.payload.iv
            /\ AesGcmPlain(msg.payload.ciphertext) \in {TextEncode(text) : text \in Texts}
            /\ msg.signature.intact
            /\ msg.signature.msg = msg.payload
            /\ msg.signature.signer =
                    KeyId(hexToBuf(Val(IdentityGet(dbIdentity[msg.from], msg.from)).falconPk))
    /\ \A m1 \in hist.sent : \A m2 \in hist.sent :
            m1.from = m2.from /\ m1.payload.iv = m2.payload.iv => m1 = m2

\* Every outgoing row holds the text of a message that was emitted before.
OutgoingWasEmitted ==
    \A u \in Users : \A p \in Users :
        /\ Cardinality(OutgoingRows(u, p)) <= Cardinality(SentTo(u, p))
        /\ \A i \in OutgoingRows(u, p) : \E msg \in SentTo(u, p) :
                AesGcmPlain(dbMessages[u][i].ciphertext) = AesGcmPlain(msg.payload.ciphertext)

SendUnderWay(u, p) ==
    \E i \in 1..Len(tasks[u]) : tasks[u][i].kind = "send" /\ tasks[u][i].peer = p

CallIs(op) == IsSome(hist.call) /\ Val(hist.call).op = op

\* C15: loadIdentityKeys with a passphrase other than the one the record
\* was stored with throws -- it returns nothing, no secret key reaches the
\* state of loadKeys -- and leaves the identity store as it was.
C15_WrongPassphraseFails ==
    CallIs("loadIdentityKeys") =>
        LET c == Val(hist.call)
            w == hist.idWritten[c.userId]
        IN IsSome(w) /\ c.passphrase # Val(w).passphrase
            => /\ c.result = [st |-> "throw"]
               /\ c.state = MemInit
               /\ dbIdentity[Local] = c.before

\* loadIdentityKeys was called with the wrong passphrase for an identity
\* that is in the store.
C15_Witness ==
    /\ CallIs("loadIdentityKeys")
    /\ IsSome(hist.idWritten[Val(hist.call).userId])
    /\ Val(hist.call).passphrase # Val(hist.idWritten[Val(hist.call).userId]).passphrase
    /\ IsSome(IdentityGet(dbIdentity[Local], Val(hist.call).userId))

\* The identity rows of userId.
IdentityRows(userId) ==
    {i \in 1..Len(dbIdentity[Local]) : dbIdentity[Local][i].userId = userId}

\* C16: storing an identity again for the same userId overwrites -- the
\* store holds one record per userId that was ever stored, and
\* loadIdentityKeys returns the public and secret keys of the last
\* storeIdentityKeys call for that userId, and of no earlier one.
C16_StoreOverwrites ==
    /\ \A userId \in Users :
            Cardinality(IdentityRows(userId)) =
                (IF IsSome(hist.idWritten[userId]) THEN 1 ELSE 0)
    /\ CallIs("loadIdentityKeys") =>
            LET c == Val(hist.call)
                w == hist.idWritten[c.userId]
            IN IsSome(w) /\ c.passphrase = Val(w).passphrase
                => c.result =
                     [st |-> "ok",
                      kyber |-> [pk |-> bufToHex(Val(w).kyber.pk),
                                 sk |-> bufToHex(Val(w).kyber.sk)],
                      falcon |-> [pk |-> bufToHex(Val(w).falcon.pk),
                                  sk |-> bufToHex(Val(w).falcon.sk)]]

\* An identity was stored twice for one userId and then loaded.
C16_Witness ==
    /\ CallIs("loadIdentityKeys")
    /\ hist.idStores[Val(hist.call).userId] >= 2
    /\ Val(hist.call).result.st = "ok"

C19_PublicWithoutPassphrase ==
    /\ CallIs("getStoredPublicKeys") =>
            LET c == Val(hist.call)
                w == hist.idWritten[c.userId]
            IN IsSome(w) => c.result = Some([kyberPk |-> Val(w).kyber.pk,
                                             falconPk |-> Val(w).falcon.pk])
    /\ CallIs("loadIdentityKeys") =>
            LET c == Val(hist.call)
                w == hist.idWritten[c.userId]
            IN IsSome(w) =>
                /\ c.result.st = "ok" <=> c.passphrase = Val(w).passphrase
                /\ c.result.st = "ok" =>
                        /\ hexToUint8(c.result.kyber.sk) = Some(Val(w).kyber.sk)
                        /\ hexToUint8(c.result.falcon.sk) = Some(Val(w).falcon.sk)
    /\ CallIs("deriveStoredSharedKey") =>
            LET c == Val(hist.call)
                w == hist.peerWritten[c.peerId]
            IN IsSome(w) =>
                /\ c.result.st = "ok" <=> c.passphrase = Val(w).passphrase
                /\ c.result.st = "ok" => c.result.v = Val(w).ss
    /\ \A i \in 1..Len(dbIdentity[Local]) : IdentityRowSafe(dbIdentity[Local][i])
    /\ \A i \in 1..Len(dbPeers[Local]) : PeersRowSafe(dbPeers[Local][i])

\* getStoredPublicKeys was called for an identity stored under the other
\* passphrase.
C19_Witness ==
    /\ CallIs("getStoredPublicKeys")
    /\ IsSome(hist.idWritten[Val(hist.call).userId])
    /\ Val(hist.idWritten[Val(hist.call).userId]).passphrase # Passphrase
    /\ IsSome(Val(hist.call).result)

\* The length in bytes of a key handed to storeFalconPeerKey: of a byte
\* container its length, of a string half the number of its characters
\* after an "0x".
KeyByteLength(k) ==
    IF k.t = "string" THEN Len(Strip0x(k.v)) \div 2 ELSE Len(k.v)

IsByteContainer(k) == k.t \in {"u8", "array", "buffer"}
IsHexText(k) == k.t = "string" /\ \A i \in 1..Len(Strip0x(k.v)) : Strip0x(k.v)[i] \in 0..15

\* C20: storeFalconPeerKey rejects a hex string of odd length and a key of
\* fewer than 16 or more than 8192 bytes, accepts keys of exactly 16 and
\* exactly 8192 bytes -- getFalconPeerKey then returns them -- and leaves
\* the peers store as it was whenever it rejects.
C20_FalconKeyValidation ==
    CallIs("storeFalconPeerKey") /\ IsSome(Val(hist.call).falconPk) =>
        LET c == Val(hist.call)
            k == Val(c.falconPk)
        IN /\ IsHexText(k) /\ Len(Strip0x(k.v)) % 2 = 1 => c.result = "throw"
           /\ (IsByteContainer(k) \/ IsHexText(k))
                /\ (KeyByteLength(k) < 16 \/ KeyByteLength(k) > 8192)
                => c.result = "throw"
           /\ (IsByteContainer(k) \/ (IsHexText(k) /\ Len(Strip0x(k.v)) % 2 = 0))
                /\ KeyByteLength(k) \in {16, 8192}
                => /\ c.result = "ok"
                   /\ getFalconPeerKey(dbPeers[Local], c.peerId) =
                        Some(IF k.t = "string" THEN hexToBuf(Strip0x(k.v)) ELSE k.v)
           /\ c.result = "throw" => dbPeers[Local] = c.before

\* A key of exactly 8192 bytes was accepted into a store that had a row of
\* the peer.
C20_Witness ==
    /\ CallIs("storeFalconPeerKey")
    /\ Val(hist.call).falconPk = Some(JsUint8Array(KeyBytes(8192)))
    /\ Val(hist.call).result = "ok"
    /\ Val(hist.call).before # <<>>


\* initKeys of u is generating keys.
Generating(u) ==
    \E i \in 1..Len(tasks[u]) :
        tasks[u][i].kind = "initKeys" /\ tasks[u][i].pc \in {"genKyber", "genFalcon", "store"}

\* The state of useCrypto holds the keys of the identity record.
HoldsStoredIdentity(u) ==
    LET row == Val(IdentityGet(dbIdentity[u], u)) IN
    /\ mem[u].userId = Some(u)
    /\ mem[u].kyberKeys.pk = Some(hexToBuf(row.kyberPk))
    /\ mem[u].falconKeys.pk = Some(hexToBuf(row.falconPk))

\* C17: an identity is never mutated after creation -- once the store
\* holds a record of the user no step changes it, initKeys generates keys
\* only while no record exists, and once initKeys has run -- on the first
\* page or on a reloaded one -- the keys in use are those of the record.
C17_IdentityNeverMutated ==
    /\ [][\A u \in Users :
            dbIdentity[u] # <<>> => dbIdentity'[u] = dbIdentity[u]]_vars
    /\ [](\A u \in Users :
            /\ Len(dbIdentity[u]) <= 1
            /\ Generating(u) => ~IsSome(IdentityGet(dbIdentity[u], u))
            /\ dbIdentity[u] # <<>> /\ ~HasTask(u, "initKeys")
                => HoldsStoredIdentity(u))

\* A page with an identity record was reloaded and initKeys has loaded the
\* record.
C17_Witness ==
    /\ used.restart["bob"] >= 1
    /\ ~HasTask("bob", "initKeys")
    /\ dbIdentity["bob"] # <<>>
    /\ HoldsStoredIdentity("bob")


\* What was stored for the conversation with p, in the order of the calls.
StoredFor(p) == SelectSeq(hist.stored, LAMBDA m : m.peerId = p)

\* The history of the conversation with p as the calls of storeMessage
\* describe it.
HistoryAsStored(p) ==
    [i \in 1..Len(StoredFor(p)) |->
        [from |-> IF StoredFor(p)[i].direction = "incoming" THEN p ELSE Local,
         text |-> StoredFor(p)[i].text]]

\* The restore of p cannot succeed: its shared secret is stored under
\* another passphrase than loadPeerMessages uses, or one of its messages
\* under another key than the session's.
RestoreFails(p) ==
    \/ Val(hist.peerWritten[p]).passphrase # Passphrase
    \/ \E i \in 1..Len(StoredFor(p)) :
            StoredFor(p)[i].key # ImportRawKey(Val(hist.peerWritten[p]).ss)

\* C21: loadPeerMessages restores each peer in isolation -- for a peer
\* whose shared secret or one of whose messages cannot be decrypted the
\* result is the empty history, and for every other peer with a session it
\* is that peer's whole history in the order stored.
C21_RestoreIsolatedPerPeer ==
    CallIs("loadPeerMessages") =>
        \A p \in Users :
            IsSome(hist.peerWritten[p]) =>
                Val(hist.call).result[p] =
                    (IF RestoreFails(p) THEN <<>> ELSE HistoryAsStored(p))

\* loadPeerMessages was called when one of two peers with messages could
\* not be restored.
C21_Witness ==
    /\ CallIs("loadPeerMessages")
    /\ \E p, q \in {"bob", "carol"} :
            /\ IsSome(hist.peerWritten[p]) /\ IsSome(hist.peerWritten[q])
            /\ RestoreFails(p) /\ StoredFor(p) # <<>>
            /\ ~RestoreFails(q) /\ Len(StoredFor(q)) >= 2
            /\ Val(hist.call).result[p] = <<>>
            /\ Len(Val(hist.call).result[q]) = Len(StoredFor(q))


\* The place of the j-th stored message of p in createdAt order, messages
\* of one createdAt in the order stored.
PlaceByCreatedAt(p, j) ==
    1 + Cardinality({k \in 1..Len(StoredFor(p)) :
            \/ StoredFor(p)[k].now < StoredFor(p)[j].now
            \/ StoredFor(p)[k].now = StoredFor(p)[j].now /\ k < j})

\* loadMessages returned the messages of the conversation, each once, in
\* non-decreasing order of createdAt.
LoadedByCreatedAt ==
    LET c == Val(hist.call) IN
    /\ Len(c.result.v) = Len(StoredFor(c.peerId))
    /\ \A j \in 1..Len(StoredFor(c.peerId)) :
            c.result.v[PlaceByCreatedAt(c.peerId, j)] = HistoryAsStored(c.peerId)[j]

\* Date.now() did not go back between the stores of the conversation.
ClockNeverBack(p) ==
    \A j, k \in 1..Len(StoredFor(p)) :
        j < k => StoredFor(p)[j].now <= StoredFor(p)[k].now

\* C22: loadMessages returns the persisted messages of the
\* conversation, each once, in non-decreasing order of createdAt, and that
\* order is the order in which they were stored.
C22_LoadedInStoredOrder ==
    CallIs("loadMessages") /\ Val(hist.call).result.st = "ok" =>
        /\ LoadedByCreatedAt
        /\ Val(hist.call).result.v = HistoryAsStored(Val(hist.call).peerId)

\* What loadMessages keeps to: the order of createdAt, messages of one
\* createdAt in the order stored; this is the order of the stores whenever
\* Date.now() did not go back between them.
LoadMessagesOrder ==
    CallIs("loadMessages") /\ Val(hist.call).result.st = "ok" =>
        /\ LoadedByCreatedAt
        /\ ClockNeverBack(Val(hist.call).peerId)
            => Val(hist.call).result.v = HistoryAsStored(Val(hist.call).peerId)


\* C23: the message store is insertion-only -- every step of the core
\* (send, receive, handshake, repeated handshake, reload and restore)
\* leaves each persisted Message record in place and unchanged, and only
\* appends.
C23_MessagesInsertionOnly ==
    [][\A u \in Users :
        /\ Len(dbMessages'[u]) >= Len(dbMessages[u])
        /\ SubSeq(dbMessages'[u], 1, Len(dbMessages[u])) = dbMessages[u]]_vars

\* Both sides hold a message record, and Alice has since reloaded the
\* page, restored her history and made another handshake.
C23_Witness ==
    /\ used.restart["alice"] >= 1
    /\ ~HasTask("alice", "initKeys")
    /\ dbMessages["alice"] # <<>>
    /\ dbMessages["bob"] # <<>>
    /\ Cardinality(SessionRows("alice", "bob")) >= 2
    /\ ui["alice"].messages["bob"] # <<>>


\* The envelope fails the AES-GCM tag check under the session key u holds
\* for its sender.
FailsTag(u, env) ==
    /\ IsSome(mem[u].aesKeys[env.from])
    /\ ~AesGcmOpens(Val(mem[u].aesKeys[env.from]), env.payload.iv, env.payload.ciphertext)

IncomingRows(u) == SelectSeq(dbMessages[u], LAMBDA m : m.direction = "incoming")

\* Nothing is persisted or displayed for an envelope that fails the tag.
FailedLeavesNoTrace ==
    \A u \in Users :
        /\ \A h \in hist.handled[u] :
                FailsTag(u, h.env) => ~h.persisted /\ h.outcome # "Accepted"
        /\ Len(IncomingRows(u)) =
                Cardinality({h \in hist.handled[u] : ~FailsTag(u, h.env) /\ h.persisted})
                + Cardinality({i \in 1..Len(tasks[u]) :
                        tasks[u][i].kind = "chat" /\ tasks[u][i].persisted})
        /\ \A p \in Users : Len(SelectSeq(ui[u].messages[p], LAMBDA m : m.from = p)) =
                Cardinality({h \in hist.handled[u] :
                    h.env.from = p /\ ~FailsTag(u, h.env) /\ h.outcome = "Accepted"})

\* The step that drops an envelope for its tag leaves the session key, the
\* PeerSession rows, the history and the display as they were.
FailureKeepsSession ==
    [][\A u \in Users :
        (\E h \in hist'.handled[u] \ hist.handled[u] : h.outcome = "DecryptFailed")
        => /\ mem'[u] = mem[u]
           /\ dbPeers'[u] = dbPeers[u]
           /\ dbMessages'[u] = dbMessages[u]
           /\ ui'[u] = ui[u]]_vars

\* A valid envelope handled after one of the same peer failed the tag is
\* persisted and displayed.
ValidAfterFailedDelivered ==
    \A u \in Users : \A h1, h2 \in hist.handled[u] :
        /\ h1.env.from = h2.env.from
        /\ FailsTag(u, h1.env) /\ h1.outcome = "DecryptFailed"
        /\ ~FailsTag(u, h2.env)
        /\ SignatureVerifies(h2.env)
        /\ h1.arrival < h2.arrival
        => h2.persisted /\ h2.outcome = "Accepted"


\* C24: a failure of the AES-GCM tag check is per message and does not end
\* the session -- nothing is persisted or displayed for the envelope, the
\* step that drops it leaves the session key and the PeerSession as they
\* were, and a valid envelope of the same peer that arrives later is
\* persisted and displayed.
C24_TagFailurePerMessage ==
    /\ FailureKeepsSession
    /\ [](FailedLeavesNoTrace /\ ValidAfterFailedDelivered)


\* The envelope is one its sender made and nobody altered.
ValidEnvelope(u, env) ==
    /\ env \in hist.sent
    /\ SignatureVerifies(env)
    /\ ~FailsTag(u, env)

\* C25: within one peer's stream the envelopes are processed in arrival
\* order -- of two valid envelopes of one peer, the one that arrived first
\* has its incoming record persisted first and stands first in the
\* displayed conversation, however the handler invocations interleave.
C25_ArrivalOrderKept ==
    \A u \in Users : \A h1, h2 \in hist.handled[u] :
        /\ h1.env.from = h2.env.from
        /\ ValidEnvelope(u, h1.env) /\ ValidEnvelope(u, h2.env)
        /\ h1.arrival < h2.arrival
        => /\ h1.persisted /\ h2.persisted => h1.storedAs < h2.storedAs
           /\ h1.outcome = "Accepted" /\ h2.outcome = "Accepted"
                => h1.shownAs < h2.shownAs


Encapsulations(u, p) == {e \in hist.encaps : e.by = u /\ e.peer = p}
Decapsulations(u, p) == {d \in hist.decaps : d.by = u /\ d.peer = p}

\* C26: the handshake of a pair goes NoSession -> RequestPending ->
\* Encapsulated | Decapsulated -> Established -- a party decapsulates for a
\* peer only against a chat_request it sent to that peer and has not yet
\* completed, so never more often than it asked, and never for a peer it
\* did not ask; it encapsulates for a peer only after a chat_request of
\* that peer reached it.
C26_HandshakeStates ==
    \A u, p \in Users :
        /\ Cardinality(Decapsulations(u, p)) <= hist.requested[u][p]
        /\ Encapsulations(u, p) # {} => hist.received[u][p] >= 1


\* The handshakes of the pair are over on device u: nothing is running and
\* nothing is waiting on its socket.
HandshakeFinished(u) == tasks[u] = <<>> /\ inbox[u] = <<>>

OwnPeerRows(u) ==
    {k \in 1..Len(dbPeers[u]) : dbPeers[u][k].userId = Some(u)}

HoldsPeerKyberPk(u, k) ==
    LET p == dbPeers[u][k].peerId IN
    /\ IsSome(GetKyberPub(directory, p))
    /\ dbPeers[u][k].kyberPk = Some(base64ToUint8(Val(GetKyberPub(directory, p))))

HoldsPeerFalconPk(u, k) ==
    LET p == dbPeers[u][k].peerId IN
    /\ IsSome(GetFalconPub(directory, p))
    /\ dbPeers[u][k].falconPk = Some(bufToHex(base64ToUint8(Val(GetFalconPub(directory, p)))))

EncapsulatorHoldsPeerKeys ==
    \A u \in Users : \A k \in OwnPeerRows(u) :
        (HandshakeFinished(u) /\ Encapsulations(u, dbPeers[u][k].peerId) # {})
            => HoldsPeerKyberPk(u, k) /\ HoldsPeerFalconPk(u, k)

DecapsulatorHoldsFalconPk ==
    \A u \in Users : \A k \in OwnPeerRows(u) :
        (HandshakeFinished(u) /\ Decapsulations(u, dbPeers[u][k].peerId) # {})
            => HoldsPeerFalconPk(u, k)

DecapsulatorHoldsKyberPk ==
    \A u \in Users : \A k \in OwnPeerRows(u) :
        (HandshakeFinished(u) /\ Decapsulations(u, dbPeers[u][k].peerId) # {})
            => HoldsPeerKyberPk(u, k)

\* C27: once a handshake has completed on a side and its operations have
\* finished, every persisted PeerSession record of (userId, peerId) holds
\* the KEM public key of peerId and the signature public key of peerId, on
\* the encapsulating and on the decapsulating side alike.
C27_RecordHoldsPeerKeys ==
    /\ EncapsulatorHoldsPeerKeys
    /\ DecapsulatorHoldsFalconPk
    /\ DecapsulatorHoldsKyberPk


\* Every AES-GCM encryption whose output is held somewhere: the secret keys
\* of the identity records, the shared secrets of the PeerSession records,
\* the message rows and the envelopes put on the socket.
IdentityEncryptions ==
    UNION {UNION {{[kind |-> "kyberSk", by |-> u, n |-> i,
             ct |-> hexToArrayBuffer(dbIdentity[u][i].encKyberSk),
             iv |-> hexToArrayBuffer(dbIdentity[u][i].kyberIv)],
            [kind |-> "falconSk", by |-> u, n |-> i,
             ct |-> hexToArrayBuffer(dbIdentity[u][i].encFalconSk),
             iv |-> hexToArrayBuffer(dbIdentity[u][i].falconIv)]}
                  : i \in 1..Len(dbIdentity[u])} : u \in Users}

PeerEncryptions ==
    UNION {{[kind |-> "sharedKey", by |-> u, n |-> i,
             ct |-> hexToArrayBuffer(Val(dbPeers[u][i].encSharedKey)),
             iv |-> hexToArrayBuffer(Val(dbPeers[u][i].iv))]
            : i \in {k \in 1..Len(dbPeers[u]) : IsSome(dbPeers[u][k].encSharedKey)}}
           : u \in Users}

HistoryEncryptions ==
    UNION {{[kind |-> "history", by |-> u, n |-> i,
             ct |-> dbMessages[u][i].ciphertext, iv |-> dbMessages[u][i].iv]
            : i \in 1..Len(dbMessages[u])} : u \in Users}

WireEncryptions ==
    {[kind |-> "wire", by |-> msg.from, n |-> 0,
      ct |-> msg.payload.ciphertext, iv |-> msg.payload.iv] : msg \in hist.sent}

Encryptions ==
    IdentityEncryptions \cup PeerEncryptions \cup HistoryEncryptions \cup WireEncryptions

SameKeyAndIv(e1, e2) ==
    /\ AesGcmKeyOf(e1.ct) = AesGcmKeyOf(e2.ct)
    /\ e1.iv = e2.iv

\* C28: no IV is used twice under one key -- every encryption of the core
\* (aesEncrypt for the secrets at rest, encryptAES for the envelopes,
\* storeMessage for the history) is made with the IV it is stored or sent
\* with, and no two of them, the wire copy and the history copy of one
\* message included, are made under the same key with the same IV; two
\* envelopes with one IV would be one envelope, so every outgoing row has
\* an envelope of its own.
C28_NoIvReuse ==
    /\ \A e \in Encryptions : AesGcmWellFormed(e.ct) /\ AesGcmIvOf(e.ct) = e.iv
    /\ \A e1 \in Encryptions : \A e2 \in Encryptions :
            SameKeyAndIv(e1, e2) => e1 = e2
    /\ \A u \in Users : \A p \in Users :
            Cardinality(OutgoingRows(u, p)) <= Cardinality(SentTo(u, p))

\* Two texts went out under one session key, their wire copies and their
\* history copies on both devices are there, next to the secrets at rest.
C28_Witness ==
    /\ Cardinality(WireEncryptions) >= 2
    /\ \E e1 \in WireEncryptions : \E e2 \in HistoryEncryptions : \E e3 \in HistoryEncryptions :
            /\ e2.by = "alice" /\ e3.by = "bob"
            /\ AesGcmKeyOf(e1.ct) = AesGcmKeyOf(e2.ct)
            /\ AesGcmKeyOf(e1.ct) = AesGcmKeyOf(e3.ct)
            /\ AesGcmPlain(e1.ct) = AesGcmPlain(e2.ct)
            /\ AesGcmPlain(e1.ct) = AesGcmPlain(e3.ct)
    /\ \E e \in PeerEncryptions : e.by = "alice"
    /\ \E e \in PeerEncryptions : e.by = "bob"
    /\ Cardinality(IdentityEncryptions) >= 4


\* The identity record of u holds the generated keys: the public keys as
\* hex, the secret keys as ciphertexts the passphrase opens.
PersistsGenerated(u) ==
    LET g == Val(hist.generated[u])
        loaded == loadIdentityKeys(dbIdentity[u], u, Passphrase)
    IN /\ loaded.st = "ok"
       /\ loaded.kyber = [pk |-> bufToHex(Val(g.kyberKeys.pk)),
                          sk |-> bufToHex(Val(g.kyberKeys.sk))]
       /\ loaded.falcon = [pk |-> bufToHex(Val(g.falconKeys.pk)),
                           sk |-> bufToHex(Val(g.falconKeys.sk))]

\* What generateKeys gave out: the two public keys, as published.
GaveOutPublicKeys(u) ==
    LET g == Val(hist.generated[u]) IN
    directory[u] = Some([kem_pub |-> uint8ToBase64(Val(g.kyberKeys.pk)),
                         falcon_pub |-> uint8ToBase64(Val(g.falconKeys.pk))])

\* loadKeys has run to its end on the page of u.
KeysLoaded(u) ==
    /\ mem[u].userId = Some(u)
    /\ ~Generating(u)

\* C29: identity round trip -- generateKeys persists the identity record
\* and gives out only the two public keys, and a following loadKeys with
\* the same passphrase restores exactly the KEM and signature secret and
\* public keys that were generated: the keys in state after a reload equal
\* the keys in state right after generation.
C29_IdentityRoundTrip ==
    \A u \in Users :
        IsSome(hist.generated[u]) =>
            /\ PersistsGenerated(u)
            /\ GaveOutPublicKeys(u)
            /\ KeysLoaded(u) =>
                    /\ mem[u].kyberKeys = Val(hist.generated[u]).kyberKeys
                    /\ mem[u].falconKeys = Val(hist.generated[u]).falconKeys

\* Bob's page was reloaded after his keys were generated and loadKeys has
\* filled the state again.
C29_Witness ==
    /\ IsSome(hist.generated["bob"])
    /\ used.restart["bob"] >= 1
    /\ KeysLoaded("bob")
    /\ IsSome(mem["bob"].kyberKeys.sk) /\ IsSome(mem["bob"].falconKeys.sk)


\* The entries of a loaded conversation are those of the stored one, each
\* as often as it was stored.
SameEntries(loaded, stored) ==
    /\ Len(loaded) = Len(stored)
    /\ \A e \in {stored[i] : i \in 1..Len(stored)} :
            Cardinality({i \in 1..Len(loaded) : loaded[i] = e}) =
            Cardinality({i \in 1..Len(stored) : stored[i] = e})

MessagesRoundTrip ==
    CallIs("loadMessages") =>
        LET c == Val(hist.call)
            stored == StoredFor(c.peerId)
        IN IF \A i \in 1..Len(stored) : stored[i].key = c.key
           THEN /\ c.result.st = "ok"
                /\ SameEntries(c.result.v, HistoryAsStored(c.peerId))
           ELSE c.result.st = "throw"

SharedSecretRoundTrip ==
    CallIs("deriveStoredSharedKey") =>
        LET c == Val(hist.call)
            w == hist.peerWritten[c.peerId]
        IN IsSome(w) =>
            IF c.passphrase = Val(w).passphrase
            THEN c.result = [st |-> "ok", v |-> Val(w).ss]
            ELSE c.result.st = "throw"

\* C30: the encrypted stores give back what was put in -- loadMessages
\* under the key the messages of (u, p) were stored with yields for every
\* stored message an entry with its text and with from = p for an incoming
\* and from = u for an outgoing one, and deriveStoredSharedKey under the
\* passphrase of the one addPeer of (u, p) returns exactly the shared
\* secret; under another key or passphrase each fails and returns no data.
C30_StoreRoundTrips == MessagesRoundTrip /\ SharedSecretRoundTrip

\* A conversation with an incoming and an outgoing message, stored under
\* the session key of a written PeerSession, was loaded under that key.
C30_Witness ==
    /\ CallIs("loadMessages")
    /\ IsSome(hist.peerWritten["bob"])
    /\ Val(hist.call).key = ImportRawKey(Val(hist.peerWritten["bob"]).ss)
    /\ Val(hist.call).result.st = "ok"
    /\ \E i, j \in 1..Len(Val(hist.call).result.v) :
            /\ Val(hist.call).result.v[i].from = "bob"
            /\ Val(hist.call).result.v[j].from = Local
            /\ Val(hist.call).result.v[i].text # Val(hist.call).result.v[j].text


\* Every message row of u opens under the key deriveStoredSharedKey gives
\* for its conversation.
RowsOpenUnderStoredKey(u) ==
    \A i \in 1..Len(dbMessages[u]) :
        LET row == dbMessages[u][i]
            ss == deriveStoredSharedKey(dbPeers[u], u, row.peerId, Passphrase)
        IN /\ ss.st = "ok"
           /\ AesGcmOpens(ImportRawKey(ss.v), row.iv, row.ciphertext)

\* The rows of u's conversation with p, in the order stored.
RowsOf(u, p) ==
    SelectSeq(dbMessages[u], LAMBDA m : m.userId = u /\ m.peerId = p)

\* loadPeerMessages of u would restore every conversation whole.
RestoresWhole(u) ==
    \A p \in Users :
        Len(loadPeerMessages(dbPeers[u], dbMessages[u], u)[p]) = Len(RowsOf(u, p))

\* C31: stored history stays readable -- in every reachable state every
\* message row of (userId, peerId) opens under the session key that
\* deriveStoredSharedKey(userId, peerId) returns, so that loadPeerMessages
\* after a restart restores for each peer every message ever stored for
\* it, never an empty or partial history.
C31_HistoryStaysReadable ==
    \A u \in Users : RowsOpenUnderStoredKey(u) /\ RestoresWhole(u)


\* No asynchronous operation is under way on either side and nothing waits
\* on a socket.
AllFinished(u, p) ==
    /\ tasks[u] = <<>> /\ tasks[p] = <<>>
    /\ inbox[u] = <<>> /\ inbox[p] = <<>>

\* C32: key agreement survives repeated and overlapping handshakes -- when
\* the responder accepted twice for one requester, both shared_secret
\* messages were delivered and decapsulated and every asynchronous
\* operation on both sides has finished, the session key in the
\* requester's state for the responder is the session key in the
\* responder's state for the requester.
C32_KeysAgreeAfterTwoHandshakes ==
    \A u \in Users : \A p \in Users \ {u} :
        (/\ AllFinished(u, p)
         /\ Cardinality(Encapsulations(p, u)) = 2
         /\ Cardinality(Decapsulations(u, p)) = 2)
            => /\ IsSome(mem[u].aesKeys[p])
               /\ mem[u].aesKeys[p] = mem[p].aesKeys[u]


\* initKeys is not running on the page of u.
InitKeysFinished(u) == ~HasTask(u, "initKeys")

\* The directory holds the public keys of u's identity record.
IdentityPublished(u) ==
    LET row == Val(IdentityGet(dbIdentity[u], u)) IN
    directory[u] = Some([kem_pub |-> uint8ToBase64(hexToBuf(row.kyberPk)),
                         falcon_pub |-> uint8ToBase64(hexToBuf(row.falconPk))])

\* C33: a locally stored identity is always a published one -- whenever
\* initKeys has finished on a page and the identity record of the user
\* exists, the directory holds the user's KEM and signature public keys,
\* published in this or an earlier session; so after a failed publish a
\* later session start publishes the stored keys.
C33_StoredIdentityPublished ==
    \A u \in Users :
        InitKeysFinished(u) /\ IsSome(IdentityGet(dbIdentity[u], u))
            => IdentityPublished(u)


\* A PeerSession record of (u, p) exists.
SessionExists(u, p) == IsSome(PeersFirstByPair(dbPeers[u], u, p))

\* sendChatRequest of u for p goes on to its look at the peers store.
RequestGoesOn(u, p) ==
    \E i \in 1..Len(tasks'[u]) :
        tasks'[u][i].kind = "request" /\ tasks'[u][i].peer = p

ChatRequestOf(u, p) == [type |-> "chat_request", from |-> u, to |-> p]

\* With a session the invocation reaches the look at the store, and from
\* there sends nothing and makes the peer the active one.
EstablishedPeerBecomesActive ==
    [][\A u \in Users : \A p \in Users \ {u} :
            /\ SendChatRequestStart(u, p) /\ SessionExists(u, p) => RequestGoesOn(u, p)
            /\ \A i \in TaskSlots :
                    (SendChatRequestExists(u, i) /\ tasks[u][i].peer = p /\ SessionExists(u, p))
                        => /\ inbox' = inbox
                           /\ ui'[u].activePeer = Some(p)]_vars

\* A chat_request goes out only from sendChatRequest, with no session for
\* the pair.
RequestOnlyWithoutSession ==
    [][\A u \in Users : \A p \in Users \ {u} :
            (\/ hist'.requested[u][p] # hist.requested[u][p]
             \/ Len(SelectSeq(inbox'[p], LAMBDA msg : msg = ChatRequestOf(u, p)))
                    > Len(SelectSeq(inbox[p], LAMBDA msg : msg = ChatRequestOf(u, p))))
                => /\ ~SessionExists(u, p)
                   /\ \E i \in TaskSlots : SendChatRequestExists(u, i)
                   /\ inbox'[p] = Append(inbox[p], ChatRequestOf(u, p))]_vars

\* C34: a requester never starts a second handshake with an established
\* peer -- when a PeerSession record of (userId, peer) exists as
\* sendChatRequest runs, no chat_request is sent and the peer becomes the
\* active conversation; a chat_request is sent only when no such record
\* exists.
C34_NoRequestToEstablishedPeer ==
    EstablishedPeerBecomesActive /\ RequestOnlyWithoutSession


\* The bytes of a key handed to storeFalconPeerKey.
BytesOfKey(falconPk) ==
    IF falconPk.t = "string" THEN hexToBuf(Strip0x(falconPk.v)) ELSE falconPk.v

PeerRows(p) == {i \in 1..Len(dbPeers[Local]) : dbPeers[Local][i].peerId = p}

\* C35: signature-key directory round trip -- once storeFalconPeerKey(p, k)
\* has succeeded, getFalconPeerKey(p) returns exactly the bytes of the key
\* stored last, in every reachable state of the peers store: with a
\* key-only row, with PeerSession rows of several local users, and with a
\* PeerSession added by addPeer afterwards.
C35_FalconKeyRoundTrip ==
    /\ \A p \in Users :
            IsSome(hist.keyStored[p]) =>
                getFalconPeerKey(dbPeers[Local], p) = Some(BytesOfKey(Val(hist.keyStored[p])))
    /\ CallIs("getFalconPeerKey") =>
            Val(hist.call).result = getFalconPeerKey(dbPeers[Local], Val(hist.call).peerId)

\* Bob's key was stored into a store that held a PeerSession row of his,
\* another row of his was added afterwards, and the key was read.
C35_Witness ==
    /\ CallIs("getFalconPeerKey") /\ Val(hist.call).peerId = "bob"
    /\ IsSome(hist.keyStored["bob"])
    /\ Val(hist.call).result = Some(BytesOfKey(Val(hist.keyStored["bob"])))
    /\ Cardinality(PeerRows("bob")) = 2
    /\ \E i, j \in PeerRows("bob") :
            /\ i < j
            /\ dbPeers[Local][j].falconPk # dbPeers[Local][i].falconPk
            /\ dbPeers[Local][j].userId # dbPeers[Local][i].userId


\* The peers store after a storeFalconPeerKey call against the store
\* before it: as it was when the call threw; else one row of the peer with
\* nothing but falconPk changed, or, the peer having had no row, one row
\* {peerId, falconPk} more.
OnlyOneKeyChanged ==
    CallIs("storeFalconPeerKey") =>
        LET c == Val(hist.call)
            before == c.before
            after == dbPeers[Local]
        IN IF c.result # "ok" THEN after = before
           ELSE IF \E k \in 1..Len(before) : before[k].peerId = c.peerId
           THEN /\ Len(after) = Len(before)
                /\ \E k \in 1..Len(before) :
                        /\ before[k].peerId = c.peerId
                        /\ IsSome(after[k].falconPk)
                        /\ after = [before EXCEPT ![k].falconPk = after[k].falconPk]
           ELSE /\ Len(after) = Len(before) + 1
                /\ SubSeq(after, 1, Len(before)) = before
                /\ after[Len(after)].peerId = c.peerId
                /\ IsSome(after[Len(after)].falconPk)
                /\ \A f \in {"userId", "kyberPk", "encSharedKey", "iv", "salt"} :
                        after[Len(after)][f] = None

OtherStoresUntouched ==
    [][(\E peerId \in Users : \E falconPk \in SmallKeyInputs :
            CallStoreFalconPeerKey(peerId, falconPk))
        => dbIdentity' = dbIdentity /\ dbMessages' = dbMessages]_vars

\* C36: storeFalconPeerKey(peerId, k) changes nothing but one signature
\* key -- it updates the falconPk field of a single existing row of peerId
\* or, when peerId has no row, adds one row {peerId, falconPk}; userId,
\* kyberPk, encSharedKey, iv and salt of every row, the rows of other peers
\* and the identity and messages stores stay as they were.
C36_StoreKeyFrame == []OnlyOneKeyChanged /\ OtherStoresUntouched

\* Bob's key was stored into his PeerSession row, an identity and a message
\* being in their stores.
C36_Witness ==
    /\ CallIs("storeFalconPeerKey")
    /\ Val(hist.call).peerId = "bob" /\ Val(hist.call).result = "ok"
    /\ \E k \in 1..Len(Val(hist.call).before) :
            /\ Val(hist.call).before[k].peerId = "bob"
            /\ IsSome(Val(hist.call).before[k].encSharedKey)
    /\ dbPeers[Local] # Val(hist.call).before
    /\ dbIdentity[Local] # <<>> /\ dbMessages[Local] # <<>>


\* The accept of u for p ran no encapsulation.
AcceptFailed(u, p) ==
    /\ AcceptStart(u, p)
    /\ \/ ~IsSome(GetKyberPub(directory, p))
       \/ hist'.encaps = hist.encaps

\* C37: a failed accept leaves no session behind -- when acceptChatRequest
\* cannot obtain the KEM public key of the requester (the directory has
\* none, or the fetch fails) no encapsulation is run, no session key is
\* set in state, no PeerSession record is persisted, no shared_secret
\* message is sent and the request stays in the list of incoming requests.
C37_FailedAcceptLeavesNothing ==
    [][\A u \in Users : \A p \in Users \ {u} :
            AcceptFailed(u, p) =>
                /\ hist'.encaps = hist.encaps
                /\ mem' = mem
                /\ dbPeers' = dbPeers
                /\ inbox' = inbox
                /\ tasks' = tasks
                /\ ui'[u].incomingRequests = ui[u].incomingRequests
                /\ \E k \in 1..Len(ui'[u].incomingRequests) :
                        ui'[u].incomingRequests[k] = p]_vars

\* Bob has tried to accept Alice's request and failed: no encapsulation,
\* no key, no record, and the request is still in his list.
C37_Witness ==
    /\ used.accept["bob"] >= 1
    /\ tasks["bob"] = <<>>
    /\ Encapsulations("bob", "alice") = {}
    /\ ~IsSome(mem["bob"].aesKeys["alice"])
    /\ ~SessionExists("bob", "alice")
    /\ inbox["alice"] = <<>>
    /\ ui["bob"].incomingRequests = <<"alice">>

====
